---- MODULE Spec2Model ----
(***************************************************************************)
(* A model of go-httpd's routing core (package route): the condition set   *)
(* (cond.go), the rule compiler Route.Parse (route.go), the route table    *)
(* Router.Add / Router.Match (router.go) and the Match value (match.go);   *)
(* of the session package's MemoryStorage and Session (session/storage.go);*)
(* of util.HeaderSetCookie (util/util.go); and of the Server's graceful    *)
(* shutdown and gotalk sockets (server.go) and the Transaction free pool.  *)
(*                                                                         *)
(* Go strings are TLA+ strings; Len, \o and SubSeq work on them.  Go's     *)
(* 0-based indices are kept in every value the code computes (IndexByte,   *)
(* the loc arrays of FindAllSubmatchIndex), and Slice/ByteAt translate     *)
(* them.  A Go pointer into r.Routes is the 1-based position in Routes.    *)
(***************************************************************************)
EXTENDS Integers, Sequences, FiniteSets, TLC

VARIABLES
    router,   \* the Router
    ret,      \* the call last made on router and what it returned
    router2,  \* a second Router
    ret2,     \* the call last made on router2
    rule,     \* the rule text under study
    calls,    \* the Match calls in progress, one for each caller
    storage,  \* the MemoryStorage: session id -> entry
    now,      \* the clock
    sret,     \* the call last made on storage and what it returned
    hist,     \* what the calls made on storage so far amount to
    cond,     \* the call last made of a function of cond.go
    refresh,  \* the RefreshSessionData calls in progress, one for each caller
    session,  \* a Session with its Store, and what Save last returned
    header,   \* an http.Header's Set-Cookie lines and the call last made on it
    shutdown, \* the graceful shutdown state of the process
    gotalk,   \* a Server's gotalk socket registry and its sockets
    pool      \* the Transaction free pool and the transactions in use

routerVars == <<router, ret, router2, ret2, rule>>

callVars == <<calls>>

storageVars == <<storage, now, sret, hist>>

condVars == <<cond>>

moreVars == <<refresh, session, header, shutdown, gotalk, pool>>

vars == <<routerVars, callVars, storageVars, condVars, moreVars>>

\* Go's nil (a nil pointer, a nil error, a nil interface value).
Nil == "nil"

\* The part of the state a specification makes no use of.
NoCalls == calls = Nil

NoStorage == storage = Nil /\ now = 0 /\ sret = Nil /\ hist = Nil

NoCond == cond = Nil

NoRouter == router = Nil /\ ret = Nil /\ router2 = Nil /\ ret2 = Nil /\ rule = Nil

NoRefresh == refresh = Nil

NoSession == session = Nil

NoHeader == header = Nil

NoShutdown == shutdown = Nil

NoGotalk == gotalk = Nil

NoPool == pool = Nil

NoMore == NoRefresh /\ NoSession /\ NoHeader /\ NoShutdown /\ NoGotalk /\ NoPool

-----------------------------------------------------------------------------
(* Strings *)

\* s[lo:hi]
Slice(s, lo, hi) == IF lo >= hi THEN "" ELSE SubSeq(s, lo + 1, hi)

\* s[i] as a one-character string; "" when i is out of range, which
\* stands for the len(s) checks that guard every such read.
ByteAt(s, i) == IF i < 0 \/ i >= Len(s) THEN "" ELSE SubSeq(s, i + 1, i + 1)

\* strings.HasPrefix
HasPrefix(s, prefix) ==
    /\ Len(s) >= Len(prefix)
    /\ Slice(s, 0, Len(prefix)) = prefix

\* The characters \s of Go's regexp syntax; the ones strings.TrimSpace
\* removes among the characters of the model.
WhiteSpace == {" ", "\t", "\n", "\r"}

Digits == {"0", "1", "2", "3", "4", "5", "6", "7", "8", "9"}

Letters ==
    {"a", "b", "c", "d", "e", "f", "g", "h", "i", "j", "k", "l", "m",
     "n", "o", "p", "q", "r", "s", "t", "u", "v", "w", "x", "y", "z",
     "A", "B", "C", "D", "E", "F", "G", "H", "I", "J", "K", "L", "M",
     "N", "O", "P", "Q", "R", "S", "T", "U", "V", "W", "X", "Y", "Z"}

\* \w of Go's regexp syntax: [0-9A-Za-z_]
WordChars == Digits \cup Letters \cup {"_"}

\* The first index i >= from with s[i] not in set (Len(s) if there is none).
RECURSIVE SkipWhile(_, _, _)
SkipWhile(s, from, set) ==
    IF from < Len(s) /\ ByteAt(s, from) \in set
    THEN SkipWhile(s, from + 1, set)
    ELSE from

\* The least index i <= upto such that s[i:upto] is all in set.
RECURSIVE SkipBack(_, _, _)
SkipBack(s, upto, set) ==
    IF upto > 0 /\ ByteAt(s, upto - 1) \in set
    THEN SkipBack(s, upto - 1, set)
    ELSE upto

\* strings.Trim(s, cutset), the cutset given as a set of characters
Trim(s, cutset) ==
    LET lo == SkipWhile(s, 0, cutset)
        hi == SkipBack(s, Len(s), cutset)
    IN  IF lo >= hi THEN "" ELSE Slice(s, lo, hi)

\* strings.TrimSpace
TrimSpace(s) == Trim(s, WhiteSpace)

\* strings.IndexByte: the index of the first c in s, or -1
RECURSIVE IndexFrom(_, _, _)
IndexFrom(s, c, from) ==
    IF from >= Len(s) THEN -1
    ELSE IF ByteAt(s, from) = c THEN from
    ELSE IndexFrom(s, c, from + 1)

IndexByte(s, c) == IndexFrom(s, c, 0)

-----------------------------------------------------------------------------
(* cond.go *)

CondMethodGET     == 1
CondMethodCONNECT == 2
CondMethodDELETE  == 4
CondMethodHEAD    == 8
CondMethodOPTIONS == 16
CondMethodPATCH   == 32
CondMethodPOST    == 64
CondMethodPUT     == 128
CondMethodTRACE   == 256

\* a & b on CondFlags (uint64; the values here stay below 2^9)
RECURSIVE BitAnd(_, _)
BitAnd(a, b) ==
    IF a = 0 \/ b = 0 THEN 0
    ELSE (a % 2) * (b % 2) + 2 * BitAnd(a \div 2, b \div 2)

\* a | b on CondFlags
RECURSIVE BitOr(_, _)
BitOr(a, b) ==
    IF a = 0 THEN b
    ELSE IF b = 0 THEN a
    ELSE (IF a % 2 = 1 \/ b % 2 = 1 THEN 1 ELSE 0)
            + 2 * BitOr(a \div 2, b \div 2)

\* The switch of ParseCondFlags: the bit of a token, 0 for the default case.
CondBit(tok) ==
    CASE tok = "GET"     -> CondMethodGET
      [] tok = "CONNECT" -> CondMethodCONNECT
      [] tok = "DELETE"  -> CondMethodDELETE
      [] tok = "HEAD"    -> CondMethodHEAD
      [] tok = "OPTIONS" -> CondMethodOPTIONS
      [] tok = "PATCH"   -> CondMethodPATCH
      [] tok = "POST"    -> CondMethodPOST
      [] tok = "PUT"     -> CondMethodPUT
      [] tok = "TRACE"   -> CondMethodTRACE
      [] OTHER           -> 0

\* CondLoop that adds the bit of a token to the flags.
RECURSIVE CondLoopAdding(_, _, _)
CondLoopAdding(tokens, i, f) ==
    IF i > Len(tokens) THEN [f |-> f, err |-> Nil]
    ELSE IF CondBit(tokens[i]) = 0
         THEN [f |-> f, err |-> "invalid condition"]
         ELSE CondLoopAdding(tokens, i + 1, f + CondBit(tokens[i]))

\* The loop of ParseCondFlags over tokens[i..], f the flags so far.
RECURSIVE CondLoop(_, _, _)
CondLoop(tokens, i, f) ==
    IF i > Len(tokens) THEN [f |-> f, err |-> Nil]
    ELSE IF CondBit(tokens[i]) = 0
         THEN [f |-> f, err |-> "invalid condition"]
         ELSE CondLoop(tokens, i + 1, BitOr(f, CondBit(tokens[i])))

\* ParseCondFlags without the special case for "*".
ParseCondFlagsNoStar(tokens) == CondLoop(tokens, 1, 0)

ParseCondFlags(tokens) ==
    IF Len(tokens) = 1 /\ tokens[1] = "*"
    THEN [f |-> 0, err |-> Nil]
    ELSE CondLoop(tokens, 1, 0)

\* "|NAME" when the bit of the method is set in fl, as one if-statement of
\* CondFlags.String writes it.
WriteIf(fl, bit, name) == IF BitAnd(fl, bit) # 0 THEN "|" \o name ELSE ""

\* sb.String() at the end of CondFlags.String
Built(fl) ==
    WriteIf(fl, CondMethodGET, "GET")
      \o WriteIf(fl, CondMethodCONNECT, "CONNECT")
      \o WriteIf(fl, CondMethodDELETE, "DELETE")
      \o WriteIf(fl, CondMethodHEAD, "HEAD")
      \o WriteIf(fl, CondMethodOPTIONS, "OPTIONS")
      \o WriteIf(fl, CondMethodPATCH, "PATCH")
      \o WriteIf(fl, CondMethodPOST, "POST")
      \o WriteIf(fl, CondMethodPUT, "PUT")
      \o WriteIf(fl, CondMethodTRACE, "TRACE")

\* String that returns what it built whole, the first "|" included.
StringKeepsBar(fl) ==
    IF fl = 0 THEN "*"
    ELSE IF Len(Built(fl)) = 0 THEN "*"
    ELSE Built(fl)

\* CondFlags.String
String(fl) ==
    IF fl = 0 THEN "*"
    ELSE IF Len(Built(fl)) = 0 THEN "*"
    ELSE Slice(Built(fl), 1, Len(Built(fl)))

-----------------------------------------------------------------------------
(* route.go: the two package-level regular expressions *)

\* reSplitOR = `\s*\|\s*` tried at index i: the index after the match, or -1.
\* \s* is greedy and "|" is not white space, so the only candidate is the
\* whole run of white space from i, followed by "|" and a second whole run.
SepEnd(s, i) ==
    LET bar == SkipWhile(s, i, WhiteSpace)
    IN  IF ByteAt(s, bar) = "|"
        THEN SkipWhile(s, bar + 1, WhiteSpace)
        ELSE -1

\* reSplitOR.Split(s, -1): the pieces of s between the leftmost,
\* non-overlapping matches; begin is the start of the current piece.
RECURSIVE SplitFrom(_, _, _)

\* The pieces from index i on, end being SepEnd(s, i).
SplitStep(s, begin, i, end) ==
    IF end # -1 THEN <<Slice(s, begin, i)>> \o SplitFrom(s, end, end)
    ELSE SplitFrom(s, begin, i + 1)

SplitFrom(s, begin, i) ==
    IF i >= Len(s) THEN <<Slice(s, begin, Len(s))>>
    ELSE SplitStep(s, begin, i, SepEnd(s, i))

SplitOR(s) == SplitFrom(s, 0, 0)

\* reMatchVars = `\{(?P<key>\w+)(?:\:\s*(?P<value>[^\}]*)|)\s*\}` tried at
\* index p: the loc array <<start, end, keyStart, keyEnd, valStart, valEnd>>
\* of the match, or <<>>.  Every repetition is greedy and is followed by a
\* character it cannot itself match, so no shorter repetition can succeed:
\* key is the whole run of \w, value runs to the first "}".
VarAt(s, p) ==
    LET keyEnd == SkipWhile(s, p + 1, WordChars)
    IN  IF ByteAt(s, p) # "{" \/ keyEnd = p + 1 THEN <<>>
        ELSE IF ByteAt(s, keyEnd) = ":"
        THEN LET valStart == SkipWhile(s, keyEnd + 1, WhiteSpace)
                 close    == IndexFrom(s, "}", valStart)
             IN  IF close = -1 THEN <<>>
                 ELSE <<p, close + 1, p + 1, keyEnd, valStart, close>>
        ELSE LET close == SkipWhile(s, keyEnd, WhiteSpace)
             IN  IF ByteAt(s, close) = "}"
                 THEN <<p, close + 1, p + 1, keyEnd, -1, -1>>
                 ELSE <<>>

\* reMatchVars.FindAllSubmatchIndex(s, -1) from index p on.
RECURSIVE FindVarsFrom(_, _)

\* The matches from index p on, loc being the match tried at p.
FindVarsStep(s, p, loc) ==
    IF loc # <<>> THEN <<loc>> \o FindVarsFrom(s, loc[2])
    ELSE FindVarsFrom(s, p + 1)

FindVarsFrom(s, p) ==
    IF p >= Len(s) THEN <<>> ELSE FindVarsStep(s, p, VarAt(s, p))

FindAllVars(s) == FindVarsFrom(s, 0)

defaultVarPattern == "[^/]+"

-----------------------------------------------------------------------------
(* Go's package regexp, for the syntax the rules of this model reach:      *)
(* ^ $ . \w \d \s \<punctuation>, classes [..] and [^..] with ranges,      *)
(* groups ( ) and (?: ), and the greedy repetitions + * ? of one           *)
(* character.  A "{" that starts no repetition count is a literal, as in   *)
(* Go.  Alternation and repeated groups are outside the model: Compile     *)
(* reports them as "unsupported", and no rule text of the model has them.  *)

\* The printable ASCII characters in code order, for the ranges of a class
\* (without the backquote, which a TLA+ string cannot hold).
Ascii ==
    " !\"#$%&'()*+,-./0123456789:;<=>?@ABCDEFGHIJKLMNOPQRSTUVWXYZ[\\]^_abcdefghijklmnopqrstuvwxyz{|}~"

Code(c) == IndexByte(Ascii, c)

CharRange(lo, hi) == {ByteAt(Ascii, k) : k \in Code(lo)..Code(hi)}

\* The characters regexp.QuoteMeta escapes: \.+*?()|[]{}^$
MetaChars == {"\\", ".", "+", "*", "?", "(", ")", "|", "[", "]", "{", "}", "^", "$"}

\* regexp.QuoteMeta
RECURSIVE QuoteFrom(_, _)
QuoteFrom(s, i) ==
    IF i >= Len(s) THEN ""
    ELSE (IF ByteAt(s, i) \in MetaChars THEN "\\" ELSE "") \o ByteAt(s, i)
            \o QuoteFrom(s, i + 1)

QuoteMeta(s) == QuoteFrom(s, 0)

\* One instruction matching one character: c matches iff (c \in chars) # neg.
CharSet(chars, neg) == [op |-> "set", chars |-> chars, neg |-> neg, q |-> "1", g |-> 0]

Instr(op, g) == [op |-> op, chars |-> {}, neg |-> FALSE, q |-> "1", g |-> g]

\* The items of a class from index i (after "[" and "^") up to its "]":
\* [err, chars, next], next the index after "]".
RECURSIVE ClassItems(_, _, _, _)
ClassItems(p, i, chars, first) ==
    LET c  == ByteAt(p, i)
        lo == IF c = "\\" THEN ByteAt(p, i + 1) ELSE c
        j  == IF c = "\\" THEN i + 2 ELSE i + 1
    IN  IF i >= Len(p) \/ (c = "\\" /\ i + 1 >= Len(p))
        THEN [err |-> "missing closing ]", chars |-> chars, next |-> i]
        ELSE IF c = "]" /\ ~first
        THEN [err |-> Nil, chars |-> chars, next |-> i + 1]
        ELSE IF c = "\\" /\ lo \in {"w", "d", "s"}
        THEN ClassItems(p, j,
                 chars \cup (CASE lo = "w" -> WordChars
                               [] lo = "d" -> Digits
                               [] lo = "s" -> WhiteSpace), FALSE)
        ELSE IF ByteAt(p, j) = "-" /\ j + 1 < Len(p) /\ ByteAt(p, j + 1) # "]"
        THEN IF Code(ByteAt(p, j + 1)) < Code(lo)
             THEN [err |-> "invalid character class range", chars |-> chars, next |-> j]
             ELSE ClassItems(p, j + 2, chars \cup CharRange(lo, ByteAt(p, j + 1)), FALSE)
        ELSE ClassItems(p, j, chars \cup {lo}, FALSE)

\* The parser's state after the class cl = ClassItems(..) read at st.i.
AfterClass(st, neg, cl) ==
    IF cl.err # Nil THEN [st EXCEPT !.err = cl.err]
    ELSE [st EXCEPT !.i = cl.next, !.prog = Append(st.prog, CharSet(cl.chars, neg))]

\* The parser's state: i the next index of the expression, prog the
\* instructions so far, open the stack of open groups (0 for (?: ), n the
\* number of capturing groups.
RECURSIVE ParseRegexp(_, _)
ParseRegexp(p, st) ==
    LET c    == ByteAt(p, st.i)
        e    == ByteAt(p, st.i + 1)
        last == IF st.prog = <<>> THEN Instr("bol", 0) ELSE st.prog[Len(st.prog)]
        emit(in, n) == ParseRegexp(p, [st EXCEPT !.i = st.i + n,
                                                  !.prog = Append(st.prog, in)])
        fail(msg) == [st EXCEPT !.err = msg]
    IN  IF st.err # Nil THEN st
        ELSE IF st.i >= Len(p)
        THEN IF st.open # <<>> THEN fail("missing closing )") ELSE st
        ELSE CASE c = "^" -> emit(Instr("bol", 0), 1)
               [] c = "$" -> emit(Instr("eol", 0), 1)
               [] c = "." -> emit(CharSet({"\n"}, TRUE), 1)
               [] c = "|" ->
                    IF st.open = <<>> THEN emit(Instr("alt", 0), 1)
                    ELSE fail("unsupported")
               [] c = "(" ->
                    IF e = "?"
                    THEN IF ByteAt(p, st.i + 2) = ":"
                         THEN ParseRegexp(p, [st EXCEPT !.i = st.i + 3,
                                                        !.open = <<0>> \o st.open])
                         ELSE fail("unsupported")
                    ELSE ParseRegexp(p, [st EXCEPT
                             !.i = st.i + 1,
                             !.n = st.n + 1,
                             !.open = <<st.n + 1>> \o st.open,
                             !.prog = Append(st.prog, Instr("open", st.n + 1))])
               [] c = ")" ->
                    IF st.open = <<>> THEN fail("unexpected )")
                    ELSE ParseRegexp(p, [st EXCEPT
                             !.i = st.i + 1,
                             !.open = Tail(st.open),
                             !.prog = Append(st.prog, Instr("close", Head(st.open)))])
               [] c = "[" ->
                    ParseRegexp(p, AfterClass(st, e = "^",
                        ClassItems(p, st.i + (IF e = "^" THEN 2 ELSE 1), {}, TRUE)))
               [] c = "\\" ->
                    IF st.i + 1 >= Len(p) THEN fail("trailing backslash")
                    ELSE IF e = "w" THEN emit(CharSet(WordChars, FALSE), 2)
                    ELSE IF e = "d" THEN emit(CharSet(Digits, FALSE), 2)
                    ELSE IF e = "s" THEN emit(CharSet(WhiteSpace, FALSE), 2)
                    ELSE IF e \in WordChars THEN fail("unsupported")
                    ELSE emit(CharSet({e}, FALSE), 2)
               [] c \in {"+", "*", "?"} ->
                    IF st.prog = <<>> \/ last.op \in {"bol", "eol", "open", "alt"}
                    THEN fail("missing argument to repetition operator")
                    ELSE IF last.op # "set" \/ last.q # "1" THEN fail("unsupported")
                    ELSE ParseRegexp(p, [st EXCEPT
                             !.i = st.i + 1,
                             !.prog[Len(st.prog)] = [last EXCEPT !.q = c]])
               [] OTHER -> emit(CharSet({c}, FALSE), 1)

\* A nil *regexp.Regexp.
NilRegexp == [nil |-> TRUE, prog |-> <<>>, n |-> 0]

\* What regexp.Compile returns when the parser ends in state st.
Compiled(st) ==
    IF st.err # Nil
    THEN [err |-> st.err, re |-> NilRegexp]
    ELSE [err |-> Nil, re |-> [nil |-> FALSE, prog |-> st.prog, n |-> st.n]]

\* regexp.Compile: [err, re]
Compile(expr) ==
    Compiled(ParseRegexp(expr,
        [i |-> 0, prog |-> <<>>, open |-> <<>>, n |-> 0, err |-> Nil]))

NoMatch == [ok |-> FALSE, end |-> 0, caps |-> <<>>]

\* The length of the run of characters of s from pos that `in` matches,
\* at most limit.
RECURSIVE RunLength(_, _, _, _)
RunLength(in, s, pos, limit) ==
    IF limit > 0 /\ pos < Len(s) /\ ((ByteAt(s, pos) \in in.chars) # in.neg)
    THEN 1 + RunLength(in, s, pos + 1, limit - 1)
    ELSE 0

\* The first match, in the order of preference of a backtracking matcher
\* (Go's leftmost-first rule: a greedy repetition prefers more), of
\* prog[pc..] against s from pos; caps[g] = <<start, end>> of group g.
RECURSIVE Run(_, _, _, _, _)
RECURSIVE TryRep(_, _, _, _, _, _, _)
Run(prog, pc, s, pos, caps) ==
    IF pc > Len(prog) THEN [ok |-> TRUE, end |-> pos, caps |-> caps]
    ELSE LET in == prog[pc]
         IN  CASE in.op = "alt" -> [ok |-> TRUE, end |-> pos, caps |-> caps]
               [] in.op = "bol" ->
                    IF pos = 0 THEN Run(prog, pc + 1, s, pos, caps) ELSE NoMatch
               [] in.op = "eol" ->
                    IF pos = Len(s) THEN Run(prog, pc + 1, s, pos, caps) ELSE NoMatch
               [] in.op = "open" ->
                    Run(prog, pc + 1, s, pos, [caps EXCEPT ![in.g] = <<pos, -1>>])
               [] in.op = "close" ->
                    IF in.g = 0 THEN Run(prog, pc + 1, s, pos, caps)
                    ELSE Run(prog, pc + 1, s, pos, [caps EXCEPT ![in.g][2] = pos])
               [] in.op = "set" /\ in.q = "1" ->
                    IF RunLength(in, s, pos, 1) = 1
                    THEN Run(prog, pc + 1, s, pos + 1, caps)
                    ELSE NoMatch
               [] in.op = "set" /\ in.q = "?" ->
                    TryRep(prog, pc, s, pos, caps, RunLength(in, s, pos, 1), 0)
               [] in.op = "set" /\ in.q = "*" ->
                    TryRep(prog, pc, s, pos, caps, RunLength(in, s, pos, Len(s)), 0)
               [] in.op = "set" /\ in.q = "+" ->
                    TryRep(prog, pc, s, pos, caps, RunLength(in, s, pos, Len(s)), 1)

\* prog[pc] repeated k times, then k-1, ... down to min.
TryRep(prog, pc, s, pos, caps, k, min) ==
    IF k < min THEN NoMatch
    ELSE LET r == Run(prog, pc + 1, s, pos + k, caps)
         IN  IF r.ok THEN r ELSE TryRep(prog, pc, s, pos, caps, k - 1, min)

\* Where the alternative after the one that holds pc begins, or 0.
RECURSIVE NextAlt(_, _)
NextAlt(prog, pc) ==
    IF pc > Len(prog) THEN 0
    ELSE IF prog[pc].op = "alt" THEN pc + 1
    ELSE NextAlt(prog, pc + 1)

RECURSIVE RunAlts(_, _, _, _, _)

\* The alternative at pc gave r: a match is taken (leftmost-first), and
\* otherwise the next alternative is tried.
AltTried(prog, pc, s, pos, caps, r) ==
    IF r.ok \/ NextAlt(prog, pc) = 0 THEN r
    ELSE RunAlts(prog, NextAlt(prog, pc), s, pos, caps)

\* The alternatives of prog from the one at pc on, tried in order at pos.
RunAlts(prog, pc, s, pos, caps) ==
    AltTried(prog, pc, s, pos, caps, Run(prog, pc, s, pos, caps))

RECURSIVE FindFrom(_, _, _)

\* The leftmost match from start on, r being the match tried at start.
FoundAt(re, s, start, r) ==
    IF r.ok THEN [r EXCEPT !.caps = <<<<start, r.end>>>> \o r.caps]
    ELSE FindFrom(re, s, start + 1)

\* The leftmost match of re in s, starting no earlier than start.
FindFrom(re, s, start) ==
    IF start > Len(s) THEN NoMatch
    ELSE FoundAt(re, s, start,
             RunAlts(re.prog, 1, s, start, [g \in 1..re.n |-> <<-1, -1>>]))

\* The texts of the match r in s: the whole match and each group's text
\* ("" for a group that took no part); the empty (nil) slice for no match.
Submatches(s, r) ==
    IF ~r.ok THEN <<>>
    ELSE [k \in 1..Len(r.caps) |->
             IF r.caps[k][1] < 0 \/ r.caps[k][2] < 0 THEN ""
             ELSE Slice(s, r.caps[k][1], r.caps[k][2])]

\* (*Regexp).FindStringSubmatch
FindStringSubmatch(re, s) == Submatches(s, FindFrom(re, s, 0))

-----------------------------------------------------------------------------
(* route.go: Route *)

\* Route{}: the zero value that Router.Add appends before parsing.
ZeroRoute ==
    [Conditions  |-> 0,
     Pattern     |-> NilRegexp,
     Vars        |-> <<>>,        \* map[string]int, name => match position
     EntryPrefix |-> "",
     IsPrefix    |-> FALSE,
     Handler     |-> Nil]

\* ParseVars without the duplicate check: a later variable of the same
\* name takes over the name's position.
RECURSIVE ParseVarsNoDupCheck(_, _, _, _, _, _)
ParseVarsNoDupCheck(r, pathPattern, locations, varIndex, resultPattern, plainStart) ==
    IF varIndex >= Len(locations)
    THEN [r |-> r, resultPattern |-> resultPattern, plainStart |-> plainStart,
          err |-> Nil]
    ELSE LET loc      == locations[varIndex + 1]
             hasChunk == plainStart < loc[1]
             chunk    == Slice(pathPattern, plainStart, loc[1])
             r1       == IF hasChunk /\ plainStart = 0
                         THEN [r EXCEPT !.EntryPrefix = chunk]
                         ELSE r
             rp1      == IF hasChunk THEN resultPattern \o QuoteMeta(chunk)
                         ELSE resultPattern
             varName  == Slice(pathPattern, loc[3], loc[4])
             pat      == IF loc[5] > -1 /\ Len(Slice(pathPattern, loc[5], loc[6])) # 0
                         THEN Slice(pathPattern, loc[5], loc[6])
                         ELSE defaultVarPattern
             r2       == IF varName # "_"
                         THEN [r1 EXCEPT !.Vars =
                                  (varName :> varIndex) @@ r1.Vars]
                         ELSE r1
         IN  ParseVarsNoDupCheck(r2, pathPattern, locations, varIndex + 1,
                                 rp1 \o "(" \o pat \o ")", loc[2])

\* The loop of Route.Parse over locations[varIndex..] (varIndex 0-based):
\* [r, resultPattern, plainStart, err].
RECURSIVE ParseVars(_, _, _, _, _, _)
ParseVars(r, pathPattern, locations, varIndex, resultPattern, plainStart) ==
    IF varIndex >= Len(locations)
    THEN [r |-> r, resultPattern |-> resultPattern, plainStart |-> plainStart,
          err |-> Nil]
    ELSE LET loc      == locations[varIndex + 1]
             varStart == loc[1]
             varEnd   == loc[2]
             hasChunk == plainStart < varStart
             chunk    == Slice(pathPattern, plainStart, varStart)
             r1       == IF hasChunk /\ plainStart = 0
                         THEN [r EXCEPT !.EntryPrefix = chunk]
                         ELSE r
             rp1      == IF hasChunk THEN resultPattern \o QuoteMeta(chunk)
                         ELSE resultPattern
             varName  == Slice(pathPattern, loc[3], loc[4])
             pat      == IF loc[5] > -1 /\ Len(Slice(pathPattern, loc[5], loc[6])) # 0
                         THEN Slice(pathPattern, loc[5], loc[6])
                         ELSE defaultVarPattern
             r2       == IF varName # "_"
                         THEN [r1 EXCEPT !.Vars = r1.Vars @@ (varName :> varIndex)]
                         ELSE r1
         IN  IF varName # "_" /\ varName \in DOMAIN r1.Vars
             THEN [r |-> r1, resultPattern |-> rp1, plainStart |-> varEnd,
                   err |-> "duplicate var"]
             ELSE ParseVars(r2, pathPattern, locations, varIndex + 1,
                            rp1 \o "(" \o pat \o ")", varEnd)

\* WithSuffix that also takes a rule ending in "/!" for a subtree rule.
WithSuffixBehindBang(r, conds, pathPattern) ==
    [r EXCEPT !.Conditions = conds,
              !.IsPrefix =
                  IF \/ ByteAt(pathPattern, Len(pathPattern) - 1) = "/"
                     \/ /\ ByteAt(pathPattern, Len(pathPattern) - 1) = "!"
                        /\ ByteAt(pathPattern, Len(pathPattern) - 2) = "/"
                  THEN TRUE ELSE @]

\* r with the parsed conditions, and IsPrefix set by a rule ending in "/".
WithSuffix(r, conds, pathPattern) ==
    [r EXCEPT !.Conditions = conds,
              !.IsPrefix = IF ByteAt(pathPattern, Len(pathPattern) - 1) = "/"
                           THEN TRUE ELSE @]

\* pathPattern without the "!" that ends it, if one does.
StripBang(pathPattern) ==
    IF ByteAt(pathPattern, Len(pathPattern) - 1) = "!"
    THEN Slice(pathPattern, 0, Len(pathPattern) - 1)
    ELSE pathPattern

\* The expression Parse compiles once the loop is over: the plain text
\* after the last variable is quoted and added, then "$" for an exact route.
ResultPattern(pathPattern, isPrefix, resultPattern, plainStart) ==
    (IF plainStart < Len(pathPattern)
     THEN resultPattern
            \o QuoteMeta(Slice(pathPattern, plainStart, Len(pathPattern)))
     ELSE resultPattern)
    \o (IF ~isPrefix THEN "$" ELSE "")

\* The end of Parse: re is what regexp.Compile returned.
ParseCompiled(r, re) ==
    IF re.err # Nil THEN [r |-> r, err |-> re.err]
    ELSE [r |-> [r EXCEPT !.Pattern = re.re], err |-> Nil]

\* Parse after its loop over the variables, loop being ParseVars' result.
ParseLooped(pathPattern, loop) ==
    IF loop.err # Nil THEN [r |-> loop.r, err |-> loop.err]
    ELSE ParseCompiled(loop.r,
             Compile(ResultPattern(pathPattern, loop.r.IsPrefix,
                                   loop.resultPattern, loop.plainStart)))

\* Parse from the search for variables on, locations being what
\* reMatchVars found in pathPattern.
ParseLocated(r, pathPattern, locations) ==
    IF Len(locations) = 0
    THEN [r |-> [r EXCEPT !.EntryPrefix = pathPattern, !.Vars = <<>>,
                          !.Pattern = NilRegexp],
          err |-> Nil]
    ELSE ParseLooped(pathPattern,
             ParseVars([r EXCEPT !.EntryPrefix = "", !.Vars = <<>>],
                       pathPattern, locations, 0, "^", 0))

\* (*Route).Parse, from the "prefix?" comment on: conds are the parsed
\* conditions, pathPattern the rule without its condition clause.
ParsePath(r, conds, pathPattern) ==
    ParseLocated(WithSuffix(r, conds, pathPattern), StripBang(pathPattern),
                 FindAllVars(StripBang(pathPattern)))

\* The rule taken apart at i, the index of its first "/" (-1 for none),
\* condstr being what is in front of it without "|" and white space.
SplitAt(trimmed, i, condstr) ==
    [i           |-> i,
     conditions  |-> IF Len(condstr) > 0 THEN SplitOR(condstr) ELSE <<>>,
     pathPattern |-> IF Len(condstr) > 0 THEN Slice(trimmed, i, Len(trimmed))
                     ELSE trimmed]

\* The head of (*Route).Parse, "COND|COND /path/pattern" taken apart:
\* i the index of the first "/", conditions the tokens of the condition
\* clause, pathPattern what is compiled as the path.
SplitRule(rulePattern) ==
    SplitAt(TrimSpace(rulePattern),
            IndexByte(TrimSpace(rulePattern), "/"),
            Trim(Slice(TrimSpace(rulePattern), 0,
                       IndexByte(TrimSpace(rulePattern), "/")),
                 {"|", " ", "\t", "\r", "\n"}))

\* Parse once ParseCondFlags has returned conds.
ParseConds(r, conds, pathPattern) ==
    IF conds.err # Nil THEN [r |-> r, err |-> conds.err]
    ELSE ParsePath(r, conds.f, pathPattern)

\* Parse once the rule is taken apart into split.
ParseSplit(r, split) ==
    IF split.i = -1 THEN [r |-> r, err |-> "missing leading / in path"]
    ELSE IF Len(split.pathPattern) = 0
    THEN [r |-> r, err |-> "empty route pattern"]
    ELSE ParseConds(r, ParseCondFlags(split.conditions), split.pathPattern)

\* (*Route).Parse: [r, err], r the receiver as the call leaves it.
Parse(r, rulePattern) == ParseSplit(r, SplitRule(rulePattern))

-----------------------------------------------------------------------------
(* router.go: Router, and the Match value it returns *)

\* var r Router, with the BasePath the caller sets
NewRouter(basePath) == [BasePath |-> basePath, Routes |-> <<>>]

\* The loop of Router.Add that trims "/" off the end of BasePath.
RECURSIVE TrimSlashes(_, _)
TrimSlashes(basePath, i) ==
    IF i >= 0 /\ ByteAt(basePath, i) = "/"
    THEN TrimSlashes(Slice(basePath, 0, i), i - 1)
    ELSE basePath

\* The "generic checks" on BasePath at the start of Router.Add.
CheckBasePath(basePath) ==
    IF Len(basePath) > 0
    THEN IF basePath = "/" THEN ""
         ELSE IF ByteAt(basePath, 0) # "/" THEN "/" \o basePath
         ELSE TrimSlashes(basePath, Len(basePath) - 1)
    ELSE basePath

\* AddParsed without the roll-back of the appended route when Parse fails.
AddParsedNoRollback(r, handler, parsed) ==
    IF parsed.err # Nil
    THEN [r |-> [r EXCEPT !.Routes[Len(r.Routes)] = parsed.r],
          route |-> 0, err |-> parsed.err]
    ELSE [r |-> [r EXCEPT !.Routes[Len(r.Routes)] =
                              [parsed.r EXCEPT !.Handler = handler]],
          route |-> Len(r.Routes), err |-> Nil]

\* AddParsed that moves the new route to the front of the table.
AddParsedFirst(r, handler, parsed) ==
    IF parsed.err # Nil
    THEN [r |-> [r EXCEPT !.Routes = SubSeq(r.Routes, 1, Len(r.Routes) - 1)],
          route |-> 0, err |-> parsed.err]
    ELSE [r |-> [r EXCEPT !.Routes =
                     <<[parsed.r EXCEPT !.Handler = handler]>>
                         \o SubSeq(r.Routes, 1, Len(r.Routes) - 1)],
          route |-> 1, err |-> Nil]

\* Router.Add once Parse has returned parsed for the route appended to r.
AddParsed(r, handler, parsed) ==
    IF parsed.err # Nil
    THEN [r |-> [r EXCEPT !.Routes = SubSeq(r.Routes, 1, Len(r.Routes) - 1)],
          route |-> 0, err |-> parsed.err]
    ELSE [r |-> [r EXCEPT !.Routes[Len(r.Routes)] =
                              [parsed.r EXCEPT !.Handler = handler]],
          route |-> Len(r.Routes), err |-> Nil]

\* (*Router).Add: [r, route, err]; route is the position of the new route
\* in r.Routes, 0 for a nil *Route.  The route Parse works on is the zero
\* Route just appended.
Add(r, pattern, handler) ==
    AddParsed([r EXCEPT !.BasePath = CheckBasePath(r.BasePath),
                        !.Routes = Append(r.Routes, ZeroRoute)],
              handler, Parse(ZeroRoute, pattern))

\* A nil *Match.
NilMatch ==
    [nil |-> TRUE, Route |-> 0, Path |-> "", values |-> <<>>, nilValues |-> TRUE]

\* &Match{Route: route, Path: path, values: values}
NewMatch(route, path, values) ==
    [nil |-> FALSE, Route |-> route, Path |-> path, values |-> values,
     nilValues |-> FALSE]

\* &Match{Route: route, Path: path}: values is the nil slice.
NewMatchNoValues(route, path) ==
    [nil |-> FALSE, Route |-> route, Path |-> path, values |-> <<>>,
     nilValues |-> TRUE]

-----------------------------------------------------------------------------
(* match.go: the accessors of a Match.  route is the Route the Match embeds. *)
(* An accessor returns [panic, v]: an index out of range ends it in a        *)
(* run-time panic and it returns nothing.                                    *)

\* values[index]
Indexed(values, index) ==
    IF index < Len(values)
    THEN [panic |-> FALSE, v |-> values[index + 1]]
    ELSE [panic |-> TRUE, v |-> ""]

\* Match.Values
Values(m) == [panic |-> FALSE, v |-> m.values]

\* Match.Vars
Vars(m, route) ==
    IF \E name \in DOMAIN route.Vars : Indexed(m.values, route.Vars[name]).panic
    THEN [panic |-> TRUE, v |-> <<>>]
    ELSE [panic |-> FALSE,
          v     |-> [name \in DOMAIN route.Vars |->
                         Indexed(m.values, route.Vars[name]).v]]

\* Match.Var; fallback is the sequence of the variadic arguments.
Var(m, route, name, fallback) ==
    IF name \in DOMAIN route.Vars /\ ~m.nilValues
    THEN Indexed(m.values, route.Vars[name])
    ELSE [panic |-> FALSE,
          v     |-> IF Len(fallback) > 0 THEN fallback[1] ELSE ""]

-----------------------------------------------------------------------------
(* router.go: Router.Match *)

\* MatchValues that hands out the submatches with the whole match in front.
MatchValuesKeepsWhole(i, path, route, values) ==
    IF Len(values) = 1 + Cardinality(DOMAIN route.Vars)
    THEN NewMatch(i, path, values)
    ELSE NilMatch

\* The end of the loop body of Router.Match: values is what
\* FindStringSubmatch returned for the route at position i.
MatchValues(i, path, route, values) ==
    IF Len(values) = 1 + Cardinality(DOMAIN route.Vars)
    THEN NewMatch(i, path, Tail(values))
    ELSE NilMatch

\* MatchRoute with the condition check lacking its "Conditions != 0".
MatchRouteStrictCond(r, i, conditions, path) ==
    LET route == r.Routes[i]
    IN  IF BitAnd(route.Conditions, conditions) = 0
        THEN NilMatch
        ELSE IF Len(route.EntryPrefix) > 0 /\ ~HasPrefix(path, route.EntryPrefix)
        THEN NilMatch
        ELSE IF route.Pattern.nil
        THEN IF route.IsPrefix \/ path = route.EntryPrefix
             THEN NewMatchNoValues(i, path)
             ELSE NilMatch
        ELSE MatchValues(i, path, route, FindStringSubmatch(route.Pattern, path))

\* MatchRoute with an exact variable-free route compared by prefix only.
MatchRoutePrefixOnly(r, i, conditions, path) ==
    LET route == r.Routes[i]
    IN  IF route.Conditions # 0 /\ BitAnd(route.Conditions, conditions) = 0
        THEN NilMatch
        ELSE IF Len(route.EntryPrefix) > 0 /\ ~HasPrefix(path, route.EntryPrefix)
        THEN NilMatch
        ELSE IF route.Pattern.nil
        THEN NewMatchNoValues(i, path)
        ELSE MatchValues(i, path, route, FindStringSubmatch(route.Pattern, path))

\* MatchRoute whose prefix check wants the path to be the prefix.
MatchRouteWholePrefix(r, i, conditions, path) ==
    LET route == r.Routes[i]
    IN  IF route.Conditions # 0 /\ BitAnd(route.Conditions, conditions) = 0
        THEN NilMatch
        ELSE IF Len(route.EntryPrefix) > 0 /\ path # route.EntryPrefix
        THEN NilMatch
        ELSE IF route.Pattern.nil
        THEN IF route.IsPrefix \/ path = route.EntryPrefix
             THEN NewMatchNoValues(i, path)
             ELSE NilMatch
        ELSE MatchValues(i, path, route, FindStringSubmatch(route.Pattern, path))

\* One turn of the loop of Router.Match, for the route at position i:
\* the Match it returns, or NilMatch when it goes on to the next route.
MatchRoute(r, i, conditions, path) ==
    LET route == r.Routes[i]
    IN  IF route.Conditions # 0 /\ BitAnd(route.Conditions, conditions) = 0
        THEN NilMatch
        ELSE IF Len(route.EntryPrefix) > 0 /\ ~HasPrefix(path, route.EntryPrefix)
        THEN NilMatch
        ELSE IF route.Pattern.nil
        THEN IF route.IsPrefix \/ path = route.EntryPrefix
             THEN NewMatchNoValues(i, path)
             ELSE NilMatch
        ELSE MatchValues(i, path, route, FindStringSubmatch(route.Pattern, path))

RECURSIVE ScanRoutes(_, _, _, _)

\* The scan that goes on after a match and so returns the last one.
ScanStepLast(r, i, conditions, path, m) ==
    IF ~ScanRoutes(r, i + 1, conditions, path).nil
    THEN ScanRoutes(r, i + 1, conditions, path)
    ELSE m

\* The scan at position i, m being what the loop body made of that route:
\* a match is returned, anything else goes on to the next route.
ScanStep(r, i, conditions, path, m) ==
    IF ~m.nil THEN m ELSE ScanRoutes(r, i + 1, conditions, path)

\* The linear scan of Router.Match from position i on.
ScanRoutes(r, i, conditions, path) ==
    IF i > Len(r.Routes) THEN NilMatch
    ELSE ScanStep(r, i, conditions, path, MatchRoute(r, i, conditions, path))

\* Match that reports a path outside BasePath as "no match".
MatchOutsideIsNoMatch(r, conditions, path) ==
    IF Len(r.BasePath) > 0 /\ ~HasPrefix(path, r.BasePath)
    THEN [m |-> NilMatch, err |-> Nil]
    ELSE [m |-> ScanRoutes(r, 1, conditions,
                    IF Len(r.BasePath) > 0
                    THEN Slice(path, Len(r.BasePath), Len(path))
                    ELSE path),
          err |-> Nil]

\* (*Router).Match: [m, err]
Match(r, conditions, path) ==
    IF Len(r.BasePath) > 0 /\ ~HasPrefix(path, r.BasePath)
    THEN [m |-> NilMatch, err |-> "outside of BasePath"]
    ELSE [m |-> ScanRoutes(r, 1, conditions,
                    IF Len(r.BasePath) > 0
                    THEN Slice(path, Len(r.BasePath), Len(path))
                    ELSE path),
          err |-> Nil]

-----------------------------------------------------------------------------
(* The route table in use: a caller sets BasePath, registers rules with    *)
(* Add and asks Match about requests.  router is the Router, ret the call  *)
(* last made and what it returned.                                         *)

\* The number of routes a table of the model holds at most.
MaxRoutes == 2

\* BasePath as a caller may set it before the first Add.
BasePaths == {"", "/", "foo/", "/foo/"}

\* Rule texts: four that compile and one for each way Parse fails.
Rules ==
    {"/a/{x}", "/a/{y:[0-9]+}", "GET|POST /", "/a/7",
     "a", "PUT|X /b", "/{x}/{x}", "/{x:[}"}

Handlers == {"h1", "h2"}

\* Request conditions: none (an unrecognized method), GET, PUT.
Conds == {0, CondMethodGET, CondMethodPUT}

Paths == {"/a/7", "/a/b", "/", "/foo/a/7", "/foo/a/b", "/foo/", "/foo", "foo/a/7"}

NoCall ==
    [op |-> "none", pattern |-> "", handler |-> Nil, conditions |-> 0,
     path |-> "", err |-> Nil, route |-> 0, m |-> NilMatch]

AddCall(pattern, handler, res) ==
    [NoCall EXCEPT !.op = "Add", !.pattern = pattern, !.handler = handler,
                   !.err = res.err, !.route = res.route]

MatchCall(conditions, path, res) ==
    [NoCall EXCEPT !.op = "Match", !.conditions = conditions, !.path = path,
                   !.err = res.err, !.m = res.m]

Init ==
    /\ router \in {NewRouter(b) : b \in BasePaths}
    /\ ret = NoCall
    /\ router2 = Nil
    /\ ret2 = Nil
    /\ rule = Nil
    /\ NoCalls /\ NoStorage /\ NoCond /\ NoMore

\* The call Add(pattern, handler) having returned res.
Added(pattern, handler, res) ==
    /\ router' = res.r
    /\ ret' = AddCall(pattern, handler, res)

DoAdd ==
    \E pattern \in Rules, handler \in Handlers :
        /\ Len(router.Routes) < MaxRoutes
        /\ Added(pattern, handler, Add(router, pattern, handler))
        /\ UNCHANGED <<router2, ret2, rule>>
        /\ UNCHANGED <<callVars, storageVars, condVars, moreVars>>

DoMatch ==
    \E conditions \in Conds, path \in Paths :
        /\ ret' = MatchCall(conditions, path, Match(router, conditions, path))
        /\ UNCHANGED <<router, router2, ret2, rule>>
        /\ UNCHANGED <<callVars, storageVars, condVars, moreVars>>

Next == DoAdd \/ DoMatch

Spec == Init /\ [][Next]_vars

-----------------------------------------------------------------------------
(* Properties of the route table *)

\* The table r with only its route at position i.
Alone(r, i) == [r EXCEPT !.Routes = <<r.Routes[i]>>]

\* The routes of the table that, each alone in a table with the same base
\* path, match the request of the last call.
MatchingAlone ==
    {i \in 1..Len(router.Routes) :
        ~Match(Alone(router, i), ret.conditions, ret.path).m.nil}

Least(S) == CHOOSE i \in S : \A j \in S : i <= j

\* C1: Match returns the route of lowest registration index among the
\* routes that individually match the request, with the values that route
\* yields alone; it returns no match only when no route matches alone.
FirstMatchWins ==
    (ret.op = "Match" /\ ret.err = Nil) =>
        IF MatchingAlone = {} THEN ret.m.nil
        ELSE /\ ~ret.m.nil
             /\ ret.m.Route = Least(MatchingAlone)
             /\ ret.m.values =
                    Match(Alone(router, Least(MatchingAlone)),
                          ret.conditions, ret.path).m.values

\* C1: "/a/{x}" registered before "/a/{y:[0-9]+}", both matching /a/7:
\* the first is returned, with x = "7".
FirstMatchWinsWitness ==
    /\ ret.op = "Match" /\ ~ret.m.nil
    /\ MatchingAlone = {1, 2}
    /\ ret.m.Route = 1
    /\ DOMAIN router.Routes[1].Vars = {"x"}
    /\ DOMAIN router.Routes[2].Vars = {"y"}
    /\ ret.m.Path = "/a/7"
    /\ ret.m.values = <<"7">>

\* BasePath is empty, or starts with "/" and does not end with "/".
Normalized(basePath) ==
    \/ basePath = ""
    \/ /\ ByteAt(basePath, 0) = "/"
       /\ ByteAt(basePath, Len(basePath) - 1) # "/"

\* C2 as stated: a failing Add leaves the whole table, base path and
\* routes, exactly as it was.
FailedAddLeavesTable ==
    [][(ret'.op = "Add" /\ ret'.err # Nil) => router' = router]_vars

\* C2 as amended: a failing Add returns the error and no route, leaves the
\* route sequence exactly as it was, and leaves the base path as it was
\* whenever that was already normalized.
FailedAddLeavesRoutes ==
    [][(ret'.op = "Add" /\ ret'.err # Nil) =>
          /\ ret'.route = 0
          /\ router'.Routes = router.Routes
          /\ Normalized(router.BasePath) => router'.BasePath = router.BasePath]_vars

\* C2: an Add has failed on a table that holds a route.
FailedAddWitness ==
    /\ ret.op = "Add" /\ ret.err # Nil
    /\ Len(router.Routes) > 0

\* C3 as stated: after any Add, BasePath is normalized.
BasePathNormalizedAfterAdd ==
    ret.op = "Add" => Normalized(router.BasePath)

\* C4: Match returns an error iff the base path is non-empty and the path
\* does not start with it, and an error comes with no match.
ErrorIffOutsideBasePath ==
    ret.op = "Match" =>
        /\ (ret.err # Nil) <=>
              (Len(router.BasePath) > 0 /\ ~HasPrefix(ret.path, router.BasePath))
        /\ ret.err # Nil => ret.m.nil

\* C4: a request outside the base path of a table with routes got the
\* error.
OutsideBasePathWitness ==
    /\ ret.op = "Match" /\ ret.err # Nil
    /\ Len(router.Routes) > 0
    /\ router.BasePath = "/foo"

\* The route rt with its condition bitset replaced.
WithConditions(r, i, conds) ==
    [r EXCEPT !.Routes = <<[r.Routes[i] EXCEPT !.Conditions = conds]>>]

\* C6: the route Match returns has bitset 0 or shares a bit with the
\* request; and a route with bitset 0 answers every request bitset, 0
\* included, as the same route restricted to GET answers a GET request.
MethodFiltering ==
    ret.op = "Match" =>
        /\ ~ret.m.nil =>
              \/ router.Routes[ret.m.Route].Conditions = 0
              \/ BitAnd(router.Routes[ret.m.Route].Conditions, ret.conditions) # 0
        /\ \A i \in 1..Len(router.Routes) :
              router.Routes[i].Conditions = 0 =>
                  Match(Alone(router, i), ret.conditions, ret.path).m.nil
                    = Match(WithConditions(router, i, CondMethodGET),
                            CondMethodGET, ret.path).m.nil

\* C6: with the route "GET|POST /", a PUT request finds no match and no
\* error.
MethodFilteringWitness ==
    /\ ret.op = "Match" /\ ret.err = Nil /\ ret.m.nil
    /\ ret.conditions = CondMethodPUT
    /\ Len(router.Routes) = 1
    /\ router.Routes[1].Conditions = BitOr(CondMethodGET, CondMethodPOST)
    /\ ~Match(router, CondMethodGET, ret.path).m.nil

\* C12: the table is append-only and never reordered.  A successful Add
\* makes the table one longer, returns the last position, puts there the
\* compiled rule with the handler given, and leaves the routes before it as
\* they were; every other call leaves the routes as they were.
AppendOnly ==
    [][/\ (ret'.op = "Add" /\ ret'.err = Nil) =>
             /\ Len(router'.Routes) = Len(router.Routes) + 1
             /\ ret'.route = Len(router'.Routes)
             /\ router'.Routes[ret'.route] =
                   [Parse(ZeroRoute, ret'.pattern).r EXCEPT !.Handler = ret'.handler]
             /\ SubSeq(router'.Routes, 1, Len(router.Routes)) = router.Routes
       /\ ~(ret'.op = "Add" /\ ret'.err = Nil) =>
             router'.Routes = router.Routes]_vars

\* C12: a second rule has been added behind a first one that has another
\* handler.
AppendOnlyWitness ==
    /\ ret.op = "Add" /\ ret.err = Nil /\ ret.route = 2
    /\ Len(router.Routes) = 2
    /\ router.Routes[2].Handler = ret.handler
    /\ router.Routes[1].Handler # ret.handler
    /\ router.Routes[1].EntryPrefix # router.Routes[2].EntryPrefix

-----------------------------------------------------------------------------
(* One rule compiled into an empty table, then matched against requests:   *)
(* rule is the text given to Add.                                          *)

OneRules ==
    {"/a/7", "/a/", "/foo/!", "/foo/!!", "GET /b", "| /foo", "/a/{x",
     "/a/{x}", "/a/{x}/", "/a/{x}/!", "/a/{_}/{id}", "/a/{_}/", "/us.er/{q}", "/user/{id:[0-9]+}/{action}",
     "/{a:(x)}/{b:?:z}", "/{_}/{x:?:a}", "/{_}/{_}", "/p/{x:?:a)|(b}",
     "/{x}/{x}", "/{x:[0-9]+}/b/{x}", "/{x:(}/{x}", "/{x}/{_}/{x:a}",
     "X /{a}/{a}", "a", "/{x:[}"}

OnePaths ==
    {"/", "/a/7", "/a/", "/a/7/", "/a/7/b", "/a/x/7", "/a/{x", "/b", "/foo", "/foo/",
     "/foo/!", "/foo/x", "| /foo", "/user/42/edit", "/user/x/edit", "/x/z",
     "/q/a", "/q/q", "/us.er/bob", "/usxer/bob", "/p/a", "/zzb"}

InitOne ==
    /\ rule \in OneRules
    /\ router = NewRouter("")
    /\ ret = NoCall
    /\ router2 = Nil
    /\ ret2 = Nil
    /\ NoCalls /\ NoStorage /\ NoCond /\ NoMore

OneAdd ==
    /\ ret.op = "none"
    /\ Added(rule, "h1", Add(router, rule, "h1"))
    /\ UNCHANGED <<router2, ret2, rule>>
    /\ UNCHANGED <<callVars, storageVars, condVars, moreVars>>

OneMatch ==
    \E conditions \in Conds, path \in OnePaths :
        /\ ret.op # "none"
        /\ ret' = MatchCall(conditions, path, Match(router, conditions, path))
        /\ UNCHANGED <<router, router2, ret2, rule>>
        /\ UNCHANGED <<callVars, storageVars, condVars, moreVars>>

NextOne == OneAdd \/ OneMatch

SpecOne == InitOne /\ [][NextOne]_vars

\* The path pattern of a rule text: the text without its condition clause
\* and without the one "!" that may end it.
PathOf(text) ==
    LET pp == SplitRule(text).pathPattern
    IN  IF ByteAt(pp, Len(pp) - 1) = "!" THEN Slice(pp, 0, Len(pp) - 1) ELSE pp

\* The rule text ends in "/": a subtree route.
IsSubtree(text) == ByteAt(TrimSpace(text), Len(TrimSpace(text)) - 1) = "/"

\* The variables of a rule text, as loc arrays into PathOf(text).
VarsOf(text) == FindAllVars(PathOf(text))

VarName(text, k) == Slice(PathOf(text), VarsOf(text)[k][3], VarsOf(text)[k][4])

\* The custom pattern of the k-th variable ("" when it has none).
VarPattern(text, k) ==
    IF VarsOf(text)[k][5] = -1 THEN ""
    ELSE Slice(PathOf(text), VarsOf(text)[k][5], VarsOf(text)[k][6])

\* The route of the one-rule table admits the request's method.
Admits(conditions) ==
    \/ router.Routes[1].Conditions = 0
    \/ BitAnd(router.Routes[1].Conditions, conditions) # 0

\* C5: a variable-free route that admits the request's method matches iff
\* the path equals its literal path (exact route) or starts with it
\* (subtree route).
VarFreeMatch ==
    (/\ ret.op = "Match"
     /\ Len(router.Routes) = 1
     /\ VarsOf(rule) = <<>>
     /\ Admits(ret.conditions)) =>
        /\ router.Routes[1].EntryPrefix = PathOf(rule)
        /\ ~ret.m.nil <=>
              IF IsSubtree(rule) THEN HasPrefix(ret.path, PathOf(rule))
              ELSE ret.path = PathOf(rule)

\* C5: the exact route "/foo/!" has refused the path /foo/x, which starts
\* with its literal path /foo/.
VarFreeMatchWitness ==
    /\ ret.op = "Match" /\ ret.m.nil
    /\ rule = "/foo/!" /\ Len(router.Routes) = 1
    /\ ret.path = "/foo/x"
    /\ HasPrefix(ret.path, router.Routes[1].EntryPrefix)

\* C7 as stated: the table holding only "/a/{_}/{id}" matches /a/x/7 with
\* the values <<"x", "7">>, the name id at the second of them.
AnonymousVarMatches ==
    (ret.op = "Match" /\ rule = "/a/{_}/{id}" /\ ret.path = "/a/x/7") =>
        /\ Len(router.Routes) = 1
        /\ ~ret.m.nil
        /\ ret.m.values = <<"x", "7">>
        /\ DOMAIN router.Routes[1].Vars = {"id"}
        /\ ret.m.values[router.Routes[1].Vars["id"] + 1] = "7"

\* The path pattern with the k-th variable and those after it replaced by
\* their values, from index plainStart of the pattern on.
RECURSIVE Rebuild(_, _, _, _)
Rebuild(text, values, k, plainStart) ==
    IF k > Len(VarsOf(text)) THEN Slice(PathOf(text), plainStart, Len(PathOf(text)))
    ELSE Slice(PathOf(text), plainStart, VarsOf(text)[k][1])
            \o values[k] \o Rebuild(text, values, k + 1, VarsOf(text)[k][2])

\* A match has one value for each variable of the rule, in the order of
\* the variables: the pattern with the values in the variables' places is
\* the path (a prefix of it, for a subtree route), and each name is mapped
\* to the position of its variable.
ValuesFollowVariables ==
    /\ Len(ret.m.values) = Len(VarsOf(rule))
    /\ IF IsSubtree(rule)
       THEN HasPrefix(ret.m.Path, Rebuild(rule, ret.m.values, 1, 0))
       ELSE ret.m.Path = Rebuild(rule, ret.m.values, 1, 0)
    /\ \A k \in 1..Len(VarsOf(rule)) :
          VarName(rule, k) # "_" =>
              /\ VarName(rule, k) \in DOMAIN router.Routes[1].Vars
              /\ router.Routes[1].Vars[VarName(rule, k)] = k - 1

\* C8 as stated: for every rule and every path it matches, the values are
\* those of the rule's variables in declaration order.
ValuesInOrder ==
    (ret.op = "Match" /\ ~ret.m.nil) => ValuesFollowVariables

\* Every custom pattern of the rule leaves its variable exactly one
\* capture group: it holds no "(" and does not begin with "?", which
\* would turn the variable's own "(" into something else.
PlainPatterns(text) ==
    \A k \in 1..Len(VarsOf(text)) :
        /\ IndexByte(VarPattern(text, k), "(") = -1
        /\ ByteAt(VarPattern(text, k), 0) # "?"

\* C8 as amended: for every rule whose custom patterns hold no "(" and do
\* not begin with "?", and every path it matches, the values are those of
\* the rule's variables in declaration order.
ValuesInOrderPlain ==
    (ret.op = "Match" /\ ~ret.m.nil /\ PlainPatterns(rule)) =>
        ValuesFollowVariables

\* C8: "/user/{id:[0-9]+}/{action}" has matched /user/42/edit with the
\* values <<"42", "edit">>.
ValuesInOrderWitness ==
    /\ ret.op = "Match" /\ ~ret.m.nil
    /\ rule = "/user/{id:[0-9]+}/{action}"
    /\ ret.m.Path = "/user/42/edit"
    /\ ret.m.values = <<"42", "edit">>
    /\ router.Routes[1].Vars["id"] = 0
    /\ router.Routes[1].Vars["action"] = 1

\* A name other than "_" is the name of two variables of the rule text.
HasDuplicateVar(text) ==
    \E j, k \in 1..Len(FindAllVars(text)) :
        /\ j < k
        /\ Slice(text, FindAllVars(text)[j][3], FindAllVars(text)[j][4]) # "_"
        /\ Slice(text, FindAllVars(text)[j][3], FindAllVars(text)[j][4])
             = Slice(text, FindAllVars(text)[k][3], FindAllVars(text)[k][4])

\* C9 as stated: a rule with a duplicate variable name always fails with
\* the duplicate-variable error, and a rule without one never does.
DuplicateVarError ==
    ret.op = "Add" => (HasDuplicateVar(rule) <=> ret.err = "duplicate var")

\* The rule text has a "/" and a condition clause that parses.
HasValidHead(text) ==
    /\ SplitRule(text).i # -1
    /\ ParseCondFlags(SplitRule(text).conditions).err = Nil

\* C9 as amended: a rule with a duplicate variable name always fails, and
\* with the duplicate-variable error when it has a "/" and a valid
\* condition clause (both are checked first); a rule without a duplicate
\* name, however often it repeats "_", never gets that error.
DuplicateVarFails ==
    ret.op = "Add" =>
        /\ HasDuplicateVar(rule) =>
              /\ ret.err # Nil
              /\ Len(router.Routes) = 0
              /\ HasValidHead(rule) => ret.err = "duplicate var"
        /\ ~HasDuplicateVar(rule) => ret.err # "duplicate var"

\* C9: a rule that repeats a name, first with a custom pattern and with
\* literal text between the two, has failed with the duplicate-variable
\* error.
DuplicateVarWitness ==
    /\ ret.op = "Add"
    /\ rule = "/{x:[0-9]+}/b/{x}"
    /\ ret.err = "duplicate var"

\* The rule text ends in "!".
EndsInBang(text) == ByteAt(TrimSpace(text), Len(TrimSpace(text)) - 1) = "!"

\* C16: a rule ending in "/" compiles to a subtree route; a rule ending in
\* "!" compiles with one "!" taken off its end and to an exact route, even
\* when what is left ends in "/": without variables it matches the path
\* equal to what is left and no other, and with variables only paths made
\* of the whole of what is left.
SuffixRules ==
    (ret.op = "Match" /\ Len(router.Routes) = 1) =>
        /\ router.Routes[1].IsPrefix = IsSubtree(rule)
        /\ EndsInBang(rule) =>
              /\ PathOf(rule) \o "!" = SplitRule(rule).pathPattern
              /\ ~router.Routes[1].IsPrefix
              /\ (VarsOf(rule) = <<>> /\ Admits(ret.conditions)) =>
                    /\ router.Routes[1].EntryPrefix = PathOf(rule)
                    /\ ~ret.m.nil <=> ret.path = PathOf(rule)
              /\ (~ret.m.nil /\ PlainPatterns(rule)) =>
                    ret.path = Rebuild(rule, ret.m.values, 1, 0)

\* C16: "/foo/!!" has matched the path /foo/! as an exact route.
SuffixRulesWitness ==
    /\ ret.op = "Match" /\ ~ret.m.nil
    /\ rule = "/foo/!!" /\ ret.path = "/foo/!"
    /\ Len(router.Routes) = 1
    /\ ~router.Routes[1].IsPrefix
    /\ router.Routes[1].EntryPrefix = "/foo/!"

\* The rule text has a variable, and no variable has a custom pattern.
DefaultVarsOnly(text) ==
    /\ VarsOf(text) # <<>>
    /\ \A k \in 1..Len(VarsOf(text)) : VarPattern(text, k) = ""

\* The path, from index pos on, conforms to the pattern of the rule text
\* from its k-th variable on, plainStart being where the literal text in
\* front of that variable starts: literal text stands for itself, a
\* variable for a non-empty run of characters other than "/", and the path
\* ends where the pattern does unless the rule is a subtree rule.
RECURSIVE Conforms(_, _, _, _, _)
Conforms(text, path, k, plainStart, pos) ==
    LET chunk == Slice(PathOf(text), plainStart,
                       IF k > Len(VarsOf(text)) THEN Len(PathOf(text))
                       ELSE VarsOf(text)[k][1])
        from  == pos + Len(chunk)
    IN  /\ from <= Len(path)
        /\ Slice(path, pos, from) = chunk
        /\ IF k > Len(VarsOf(text))
           THEN IsSubtree(text) \/ from = Len(path)
           ELSE \E end \in (from + 1)..Len(path) :
                   /\ IndexByte(Slice(path, from, end), "/") = -1
                   /\ Conforms(text, path, k + 1, VarsOf(text)[k][2], end)

\* C17 as stated: a route whose variables have no custom pattern matches a
\* path only when the path conforms to the pattern, whole for an exact
\* route and by a prefix for a subtree route; a subtree route matches every
\* path with a conforming prefix, "/a/{x}" matches /a/7 and "/us.er/{q}"
\* matches /us.er/bob.
DefaultVarConforms ==
    (/\ ret.op = "Match"
     /\ Len(router.Routes) = 1
     /\ DefaultVarsOnly(rule)
     /\ Admits(ret.conditions)) =>
        /\ ~ret.m.nil => Conforms(rule, ret.path, 1, 0, 0)
        /\ (IsSubtree(rule) /\ Conforms(rule, ret.path, 1, 0, 0)) => ~ret.m.nil
        /\ (rule = "/a/{x}" /\ ret.path = "/a/7") => ~ret.m.nil
        /\ (rule = "/us.er/{q}" /\ ret.path = "/us.er/bob") => ~ret.m.nil

\* C18 as stated: every rule that compiles has a path pattern beginning
\* with "/", what is in front of the first "/" being taken as the condition
\* clause or rejected; so the literal path stored for a variable-free route
\* starts with "/", and so does any literal prefix stored for a route.
PathBeginsWithSlash ==
    (ret.op # "none" /\ Len(router.Routes) = 1) =>
        /\ ByteAt(SplitRule(rule).pathPattern, 0) = "/"
        /\ router.Routes[1].Pattern.nil =>
              ByteAt(router.Routes[1].EntryPrefix, 0) = "/"
        /\ router.Routes[1].EntryPrefix # "" =>
              ByteAt(router.Routes[1].EntryPrefix, 0) = "/"

\* The names other than "_" of the variables of a rule text.
NamedVars(text) ==
    {VarName(text, k) : k \in 1..Len(VarsOf(text))} \ {"_"}

\* The position (from 0) of the variable called name among the variables
\* of a rule text.
Position(text, name) ==
    (CHOOSE k \in 1..Len(VarsOf(text)) : VarName(text, k) = name) - 1

\* The arguments given as fallback: none, or one.
Fallbacks == {<<>>, <<"fb">>}

\* C11 as stated: for every Match no accessor fails, Vars() holds exactly
\* the named variables of the rule, Vars()[name] is Values()[position(name)],
\* Var(name, fallback) is that same value for a declared name and the
\* fallback ("" when none is given) for an unknown one.
AccessorsAgree ==
    (ret.op = "Match" /\ ~ret.m.nil) =>
        LET route == router.Routes[ret.m.Route]
            kv    == Vars(ret.m, route)
        IN  /\ ~kv.panic
            /\ DOMAIN kv.v = NamedVars(rule)
            /\ \A name \in NamedVars(rule), fallback \in Fallbacks :
                  /\ Position(rule, name) < Len(Values(ret.m).v)
                  /\ kv.v[name] = Values(ret.m).v[Position(rule, name) + 1]
                  /\ Var(ret.m, route, name, fallback) =
                        [panic |-> FALSE, v |-> kv.v[name]]
            /\ \A fallback \in Fallbacks :
                  Var(ret.m, route, "unknown", fallback) =
                      [panic |-> FALSE,
                       v |-> IF fallback = <<>> THEN "" ELSE fallback[1]]

-----------------------------------------------------------------------------
(* Two tables built side by side: every Add gives both the same rule,      *)
(* except that a rule with the condition clause "*" in router has the      *)
(* clause omitted in router2.  rule is the path pattern of the last such   *)
(* pair.                                                                   *)

StarBasePaths == {"", "/foo"}

\* Rule texts given to both tables alike.
StarRules == {"GET /p", "/a/7", "PUT|X /b"}

\* Path patterns registered as "* " \o p in router and as p in router2.
StarPatterns == {"/p", "/a/{x}", "/a/"}

StarPaths == {"/p", "/a/7", "/a/", "/foo/p", "/foo/a/7", "/q"}

InitStar ==
    /\ \E b \in StarBasePaths : router = NewRouter(b) /\ router2 = NewRouter(b)
    /\ ret = NoCall
    /\ ret2 = NoCall
    /\ rule = Nil
    /\ NoCalls /\ NoStorage /\ NoCond /\ NoMore

\* The call Add(pattern, handler) on router2 having returned res.
Added2(pattern, handler, res) ==
    /\ router2' = res.r
    /\ ret2' = AddCall(pattern, handler, res)

StarAddBoth ==
    \E pattern \in StarRules, handler \in Handlers :
        /\ Len(router.Routes) < MaxRoutes
        /\ Added(pattern, handler, Add(router, pattern, handler))
        /\ Added2(pattern, handler, Add(router2, pattern, handler))
        /\ UNCHANGED rule
        /\ UNCHANGED <<callVars, storageVars, condVars, moreVars>>

StarAddPair ==
    \E pattern \in StarPatterns, handler \in Handlers :
        /\ Len(router.Routes) < MaxRoutes
        /\ Added("* " \o pattern, handler, Add(router, "* " \o pattern, handler))
        /\ Added2(pattern, handler, Add(router2, pattern, handler))
        /\ rule' = pattern
        /\ UNCHANGED <<callVars, storageVars, condVars, moreVars>>

StarMatch ==
    \E conditions \in Conds, path \in StarPaths :
        /\ ret' = MatchCall(conditions, path, Match(router, conditions, path))
        /\ ret2' = MatchCall(conditions, path, Match(router2, conditions, path))
        /\ UNCHANGED <<router, router2, rule>>
        /\ UNCHANGED <<callVars, storageVars, condVars, moreVars>>

NextStar == StarAddBoth \/ StarAddPair \/ StarMatch

SpecStar == InitStar /\ [][NextStar]_vars

\* C10: two tables that differ only in rules written with "*" in one and
\* with no condition clause in the other give every call the same outcome
\* (error, route, path, values, handler), and a rule of either form,
\* alone in its table, matches under every request bitset what it matches
\* under one.
StarIsOmitted ==
    /\ ret.err = ret2.err
    /\ ret.route = ret2.route
    /\ ret.m = ret2.m
    /\ ~ret.m.nil =>
          router.Routes[ret.m.Route].Handler = router2.Routes[ret2.m.Route].Handler
    /\ (ret.op = "Match" /\ rule # Nil /\ Len(router.Routes) = 1) =>
          \A c \in Conds :
              /\ Match(router, c, ret.path).m = ret.m
              /\ Match(router2, c, ret.path).m = ret.m

\* C10: "* /p" in one table and "/p" in the other, each the only rule,
\* have both matched a PUT request for /p.
StarIsOmittedWitness ==
    /\ ret.op = "Match" /\ ~ret.m.nil /\ ~ret2.m.nil
    /\ rule = "/p" /\ Len(router.Routes) = 1 /\ Len(router2.Routes) = 1
    /\ ret.conditions = CondMethodPUT
    /\ ret.m.Path = "/p"

-----------------------------------------------------------------------------
(* Concurrent callers of Router.Match on a table built beforehand.  Every   *)
(* caller runs the code of Match a step at a time: the check against        *)
(* BasePath, then one turn of the loop for each route; calls[c] holds the   *)
(* locals of caller c (rest is the local path once BasePath is cut off, i   *)
(* the position of the loop) and what its call returned.                    *)

Callers == {1, 2}

ConcBasePaths == {"", "/foo"}

\* The rules of a table, in the order they are added.
ConcRuleLists == {<<"/a/{x}", "/a/7">>, <<"GET /a/7", "/a/">>}

ConcConds == {CondMethodGET, CondMethodPUT}

ConcPaths == {"/a/7", "/foo/a/7", "/a/b", "/q"}

\* r after r.Add(rules[k], k), r.Add(rules[k+1], k+1), ...
RECURSIVE AddAll(_, _, _)
AddAll(r, rules, k) ==
    IF k > Len(rules) THEN r
    ELSE AddAll(Add(r, rules[k], k).r, rules, k + 1)

\* A caller that is not in a call.
IdleCall ==
    [pc |-> "idle", conditions |-> 0, path |-> "", rest |-> "", i |-> 0,
     m |-> NilMatch, err |-> Nil]

\* Match up to its loop: the path is outside BasePath and the call returns
\* the error, or the loop starts on the path without BasePath.
BaseChecked(r, call) ==
    IF Len(r.BasePath) > 0 /\ ~HasPrefix(call.path, r.BasePath)
    THEN [call EXCEPT !.pc = "done", !.err = "outside of BasePath"]
    ELSE [call EXCEPT !.pc = "scan", !.i = 1,
                      !.rest = IF Len(r.BasePath) > 0
                               THEN Slice(call.path, Len(r.BasePath), Len(call.path))
                               ELSE call.path]

\* The caller after the turn of the loop that made m of the route at i.
Turned(call, m) ==
    IF ~m.nil THEN [call EXCEPT !.pc = "done", !.m = m]
    ELSE [call EXCEPT !.i = @ + 1]

\* One turn of the loop of Match, or its end: return nil, nil.
Scanned(r, call) ==
    IF call.i > Len(r.Routes) THEN [call EXCEPT !.pc = "done"]
    ELSE Turned(call, MatchRoute(r, call.i, call.conditions, call.rest))

InitConc ==
    /\ router \in {AddAll(NewRouter(b), rules, 1) :
                      b \in ConcBasePaths, rules \in ConcRuleLists}
    /\ calls = [c \in Callers |-> IdleCall]
    /\ ret = Nil /\ router2 = Nil /\ ret2 = Nil /\ rule = Nil
    /\ NoStorage /\ NoCond /\ NoMore

\* Caller c calls r.Match(conditions, path).
CallMatch(c) ==
    \E conditions \in ConcConds, path \in ConcPaths :
        /\ calls[c].pc \in {"idle", "done"}
        /\ calls' = [calls EXCEPT ![c] =
                        [IdleCall EXCEPT !.pc = "base",
                                         !.conditions = conditions,
                                         !.path = path]]
        /\ UNCHANGED <<routerVars, storageVars, condVars, moreVars>>

CallBase(c) ==
    /\ calls[c].pc = "base"
    /\ calls' = [calls EXCEPT ![c] = BaseChecked(router, calls[c])]
    /\ UNCHANGED <<routerVars, storageVars, condVars, moreVars>>

\* The route at position i of the table moved to its front.
Promoted(r, i) ==
    [r EXCEPT !.Routes = <<r.Routes[i]>> \o SubSeq(r.Routes, 1, i - 1)
                             \o SubSeq(r.Routes, i + 1, Len(r.Routes))]

\* CallScan that moves the route it is about to try to the front of the
\* table.
CallScanPromoting(c) ==
    /\ calls[c].pc = "scan"
    /\ calls' = [calls EXCEPT ![c] = Scanned(router, calls[c])]
    /\ router' = IF calls[c].i <= Len(router.Routes)
                 THEN Promoted(router, calls[c].i) ELSE router
    /\ UNCHANGED <<ret, router2, ret2, rule, storageVars, condVars, moreVars>>

CallScan(c) ==
    /\ calls[c].pc = "scan"
    /\ calls' = [calls EXCEPT ![c] = Scanned(router, calls[c])]
    /\ UNCHANGED <<routerVars, storageVars, condVars, moreVars>>

NextConc == \E c \in Callers : CallMatch(c) \/ CallBase(c) \/ CallScan(c)

SpecConc == InitConc /\ [][NextConc]_vars

\* C13: no step of a Match call changes the table, BasePath or Routes, and
\* every call, whatever other calls run between its steps, returns what
\* Match returns for its arguments when run alone on the table.
MatchIsReadOnly ==
    /\ [][router' = router]_vars
    /\ [](\A c \in Callers :
            calls[c].pc = "done" =>
                /\ calls[c].m = Match(router, calls[c].conditions, calls[c].path).m
                /\ calls[c].err = Match(router, calls[c].conditions, calls[c].path).err)

\* C13: one caller has got the second route of the table while the other is
\* in the loop, past the first route.
MatchIsReadOnlyWitness ==
    /\ calls[1].pc = "done" /\ ~calls[1].m.nil /\ calls[1].m.Route = 2
    /\ calls[2].pc = "scan" /\ calls[2].i = 2
    /\ router.BasePath = "/foo"

-----------------------------------------------------------------------------
(* cond.go on its own: one call of ParseCondFlags with a token list, or of  *)
(* CondFlags.String with a bitset, its result split on "|" and parsed       *)
(* again.  cond holds the arguments and then what the call returned.        *)

\* The longest token list given to ParseCondFlags.
MaxTokens == 3

\* Tokens: method names, "*", and texts that are no method name.
Tokens == {"GET", "POST", "PUT", "TRACE", "*", "X", "get"}

RECURSIVE Lists(_, _)
Lists(S, n) ==
    IF n = 0 THEN {<<>>}
    ELSE Lists(S, n - 1) \cup {Append(l, x) : l \in Lists(S, n - 1), x \in S}

\* Every bitset made of the method bits.
MethodSets == 0..(2 * CondMethodTRACE - 1)

CondNone ==
    [op |-> "none", tokens |-> <<>>, fl |-> 0, s |-> "", f |-> 0, err |-> Nil]

\* The arguments of the one call to come: a token list, or a bitset.
InitCond ==
    /\ \/ \E tokens \in Lists(Tokens, MaxTokens) :
              cond = [CondNone EXCEPT !.tokens = tokens]
       \/ \E fl \in MethodSets : cond = [CondNone EXCEPT !.fl = fl]
    /\ NoRouter /\ NoCalls /\ NoStorage /\ NoMore

\* ParseCondFlags(tokens) having returned res.
Parsed(tokens, res) ==
    cond' = [CondNone EXCEPT !.op = "ParseCondFlags", !.tokens = tokens,
                             !.f = res.f, !.err = res.err]

DoParseCondFlags ==
    /\ cond.op = "none"
    /\ Parsed(cond.tokens, ParseCondFlags(cond.tokens))
    /\ UNCHANGED <<routerVars, callVars, storageVars, moreVars>>

\* fl.String() having returned s, and s split and given to ParseCondFlags.
Rendered(fl, s) ==
    cond' = [CondNone EXCEPT !.op = "String", !.fl = fl, !.s = s,
                             !.tokens = SplitOR(s),
                             !.f = ParseCondFlags(SplitOR(s)).f,
                             !.err = ParseCondFlags(SplitOR(s)).err]

DoString ==
    /\ cond.op = "none"
    /\ Rendered(cond.fl, String(cond.fl))
    /\ UNCHANGED <<routerVars, callVars, storageVars, moreVars>>

NextCond == DoParseCondFlags \/ DoString

SpecCond == InitCond /\ [][NextCond]_vars

\* The method names in the canonical order; the k-th has the bit 2^(k-1).
MethodNames ==
    <<"GET", "CONNECT", "DELETE", "HEAD", "OPTIONS", "PATCH", "POST", "PUT",
      "TRACE">>

\* The bitset of the methods named in the set S, from the k-th name on.
RECURSIVE UnionOf(_, _)
UnionOf(S, k) ==
    IF k > Len(MethodNames) THEN 0
    ELSE (IF MethodNames[k] \in S THEN 2 ^ (k - 1) ELSE 0) + UnionOf(S, k + 1)

Range(seq) == {seq[k] : k \in 1..Len(seq)}

\* C14: ParseCondFlags returns 0 and no error for the empty list and for
\* <<"*">>; for any other list it succeeds iff every token is a method
\* name, and then returns the union of the bits of the distinct tokens,
\* whatever their order and repetition, with no undefined bit set.
ParseCondFlagsContract ==
    cond.op = "ParseCondFlags" =>
        IF cond.tokens = <<>> \/ cond.tokens = <<"*">>
        THEN cond.f = 0 /\ cond.err = Nil
        ELSE /\ cond.err = Nil <=> Range(cond.tokens) \subseteq Range(MethodNames)
             /\ cond.err = Nil =>
                   /\ cond.f = UnionOf(Range(cond.tokens), 1)
                   /\ cond.f \in MethodSets

\* C14: a list that repeats a method and names another before it has
\* given the two bits.
ParseCondFlagsWitness ==
    /\ cond.op = "ParseCondFlags"
    /\ cond.tokens = <<"PUT", "GET", "PUT">>
    /\ cond.err = Nil
    /\ cond.f = CondMethodGET + CondMethodPUT

\* The names, from the k-th on, of the methods whose bit is set in b, each
\* with a "|" in front.
RECURSIVE NamesOf(_, _)
NamesOf(b, k) ==
    IF k > Len(MethodNames) THEN ""
    ELSE (IF (b \div 2 ^ (k - 1)) % 2 = 1 THEN "|" \o MethodNames[k] ELSE "")
            \o NamesOf(b, k + 1)

\* C15: for every bitset b of method bits, String renders "*" for 0 and
\* otherwise the methods set, joined by "|" in the canonical order, and
\* ParseCondFlags of that string split on "|" returns b again.
RenderParseRoundTrip ==
    cond.op = "String" =>
        /\ cond.s = IF cond.fl = 0 THEN "*"
                    ELSE Slice(NamesOf(cond.fl, 1), 1, Len(NamesOf(cond.fl, 1)))
        /\ cond.err = Nil
        /\ cond.f = cond.fl

\* C15: the bitset of TRACE, GET and POST has been rendered in the
\* canonical order and parsed back.
RenderParseWitness ==
    /\ cond.op = "String"
    /\ cond.fl = CondMethodTRACE + CondMethodGET + CondMethodPOST
    /\ cond.s = "GET|POST|TRACE"
    /\ cond.tokens = <<"GET", "POST", "TRACE">>
    /\ cond.f = cond.fl

-----------------------------------------------------------------------------
(* session/storage.go: MemoryStorage.  storage is the sync.Map, a function  *)
(* from the session ids stored to their memStorageEntry; now is the time    *)
(* time.Now() returns.                                                      *)

ErrStorageNotFound == "not found"

ErrStorageExpired == "expired"

\* sync.Map.Store
Store(s, key, value) ==
    [k \in DOMAIN s \cup {key} |-> IF k = key THEN value ELSE s[k]]

\* sync.Map.Delete
Delete(s, key) == [k \in DOMAIN s \ {key} |-> s[k]]

\* time.Time.After
After(t, u) == t > u

\* GetLoaded that leaves an expired entry in the map.
GetLoadedKeeps(s, t, sessionId, entry) ==
    IF After(t, entry.expires)
    THEN [s |-> s, data |-> Nil, err |-> ErrStorageExpired]
    ELSE [s |-> s, data |-> entry.data, err |-> Nil]

\* GetSessionData once the entry is loaded.
GetLoaded(s, t, sessionId, entry) ==
    IF After(t, entry.expires)
    THEN [s |-> Delete(s, sessionId), data |-> Nil, err |-> ErrStorageExpired]
    ELSE [s |-> s, data |-> entry.data, err |-> Nil]

\* (*MemoryStorage).GetSessionData at time t: [s, data, err]
GetSessionData(s, t, sessionId) ==
    IF sessionId \in DOMAIN s
    THEN GetLoaded(s, t, sessionId, s[sessionId])
    ELSE [s |-> s, data |-> Nil, err |-> ErrStorageNotFound]

\* SetSessionData that keeps the data of an entry already stored.
SetSessionDataKeeps(s, t, sessionId, data, ttl) ==
    [s   |-> Store(s, sessionId,
                   [data    |-> IF sessionId \in DOMAIN s THEN s[sessionId].data
                                ELSE data,
                    expires |-> t + ttl]),
     err |-> Nil]

\* (*MemoryStorage).SetSessionData at time t: [s, err]
SetSessionData(s, t, sessionId, data, ttl) ==
    [s   |-> Store(s, sessionId, [data |-> data, expires |-> t + ttl]),
     err |-> Nil]

\* (*MemoryStorage).RefreshSessionData at time t: [s, err]
RefreshSessionData(s, t, sessionId, ttl) ==
    IF sessionId \notin DOMAIN s
    THEN [s |-> s, err |-> ErrStorageNotFound]
    ELSE [s   |-> Store(s, sessionId, [s[sessionId] EXCEPT !.expires = t + ttl]),
          err |-> Nil]

\* (*MemoryStorage).DelSessionData: [s, err]
DelSessionData(s, sessionId) == [s |-> Delete(s, sessionId), err |-> Nil]

-----------------------------------------------------------------------------
(* A MemoryStorage in sequential use: calls of its four methods, and the    *)
(* clock moving on between them.  sret is the call last made; hist keeps of *)
(* the calls made so far: written, for each id the data of the last         *)
(* SetSessionData not followed by a DelSessionData; fresh, that no call     *)
(* was made while an entry stored was past its expiry time; gone, the ids   *)
(* for which GetSessionData was called on an entry past its expiry time,    *)
(* with no SetSessionData since.                                            *)

\* The clock stops here.
MaxTime == 3

SessionIds == {"abc123", "xyz789"}

Datas == {"hello", "bye"}

TTLs == {1, 2}

NoSCall == [op |-> "none", id |-> "", data |-> Nil, ttl |-> 0, err |-> Nil]

\* No entry of s is past its expiry time at time t.
Unexpired(s, t) == \A k \in DOMAIN s : ~After(t, s[k].expires)

InitStorage ==
    /\ storage = <<>>
    /\ now = 0
    /\ sret = NoSCall
    /\ hist = [written |-> [id \in SessionIds |-> Nil], fresh |-> TRUE,
               gone |-> {}]
    /\ NoRouter /\ NoCalls /\ NoCond /\ NoMore

\* The call op(id, ..) having returned res.
Returned(op, id, data, ttl, res) ==
    /\ storage' = res.s
    /\ sret' = [op |-> op, id |-> id, data |-> data, ttl |-> ttl, err |-> res.err]

DoGetSessionData ==
    \E id \in SessionIds :
        /\ Returned("Get", id, GetSessionData(storage, now, id).data, 0,
                    GetSessionData(storage, now, id))
        /\ hist' = [hist EXCEPT
                      !.fresh = @ /\ Unexpired(storage, now),
                      !.gone = IF /\ id \in DOMAIN storage
                                  /\ After(now, storage[id].expires)
                               THEN @ \cup {id} ELSE @]
        /\ UNCHANGED <<now, routerVars, callVars, condVars, moreVars>>

DoSetSessionData ==
    \E id \in SessionIds, data \in Datas, ttl \in TTLs :
        /\ Returned("Set", id, data, ttl,
                    SetSessionData(storage, now, id, data, ttl))
        /\ hist' = [hist EXCEPT
                      !.fresh = @ /\ Unexpired(storage, now),
                      !.written[id] = data,
                      !.gone = @ \ {id}]
        /\ UNCHANGED <<now, routerVars, callVars, condVars, moreVars>>

DoRefreshSessionData ==
    \E id \in SessionIds, ttl \in TTLs :
        /\ Returned("Refresh", id, Nil, ttl,
                    RefreshSessionData(storage, now, id, ttl))
        /\ hist' = [hist EXCEPT !.fresh = @ /\ Unexpired(storage, now)]
        /\ UNCHANGED <<now, routerVars, callVars, condVars, moreVars>>

DoDelSessionData ==
    \E id \in SessionIds :
        /\ Returned("Del", id, Nil, 0, DelSessionData(storage, id))
        /\ hist' = [hist EXCEPT
                      !.fresh = @ /\ Unexpired(storage, now),
                      !.written[id] = Nil]
        /\ UNCHANGED <<now, routerVars, callVars, condVars, moreVars>>

\* time.Sleep: the clock moves on.
Sleep ==
    /\ now < MaxTime
    /\ now' = now + 1
    /\ sret' = [NoSCall EXCEPT !.op = "Sleep"]
    /\ UNCHANGED <<storage, hist, routerVars, callVars, condVars, moreVars>>

NextStorage ==
    \/ DoGetSessionData
    \/ DoSetSessionData
    \/ DoRefreshSessionData
    \/ DoDelSessionData
    \/ Sleep

SpecStorage == InitStorage /\ [][NextStorage]_vars

\* C19: as long as no call is made while an entry is past its expiry time,
\* GetSessionData(id) returns the data of the last SetSessionData(id) not
\* followed by DelSessionData(id), and (nil, "not found") when there is
\* none; DelSessionData returns nil whether or not there was data;
\* RefreshSessionData returns "not found" for an id without data, and
\* creates no entry.
StorageIsAMap ==
    /\ (sret.op = "Get" /\ hist.fresh) =>
          IF hist.written[sret.id] # Nil
          THEN sret.data = hist.written[sret.id] /\ sret.err = Nil
          ELSE sret.data = Nil /\ sret.err = ErrStorageNotFound
    /\ sret.op = "Del" =>
          sret.err = Nil /\ sret.id \notin DOMAIN storage
    /\ (sret.op = "Refresh" /\ hist.fresh) =>
          /\ sret.err = ErrStorageNotFound <=> hist.written[sret.id] = Nil
          /\ sret.err = ErrStorageNotFound => sret.id \notin DOMAIN storage
          /\ sret.err # ErrStorageNotFound => sret.err = Nil
    /\ hist.fresh =>
          DOMAIN storage = {id \in SessionIds : hist.written[id] # Nil}

\* C19: after two SetSessionData calls for an id, with time passing but no
\* TTL elapsed, GetSessionData has returned the data of the second.
StorageIsAMapWitness ==
    /\ sret.op = "Get" /\ sret.err = Nil /\ hist.fresh
    /\ now > 0
    /\ sret.data = "bye"
    /\ storage[sret.id].data = "bye"
    /\ \E other \in SessionIds :
          other # sret.id /\ other \in DOMAIN storage /\ storage[other].data = "hello"

\* The entry of id is stored and past its expiry time.
Expired(id) == id \in DOMAIN storage /\ After(now, storage[id].expires)

\* C20: GetSessionData on an entry past its expiry time returns
\* (nil, "expired") and removes the entry; every later GetSessionData for
\* the id, with no SetSessionData in between, returns (nil, "not found");
\* RefreshSessionData on an entry past its expiry time, not read since,
\* succeeds and makes GetSessionData return the entry's data again.
ExpiryThenNotFound ==
    [][/\ (sret'.op = "Get" /\ Expired(sret'.id)) =>
             /\ sret'.data = Nil
             /\ sret'.err = ErrStorageExpired
             /\ sret'.id \notin DOMAIN storage'
       /\ (sret'.op = "Get" /\ sret'.id \in hist.gone) =>
             /\ sret'.data = Nil
             /\ sret'.err = ErrStorageNotFound
       /\ (sret'.op = "Refresh" /\ Expired(sret'.id)) =>
             /\ sret'.err = Nil
             /\ GetSessionData(storage', now', sret'.id) =
                   [s |-> storage', data |-> storage[sret'.id].data, err |-> Nil]
      ]_vars

\* C20: a second GetSessionData for an id whose entry the first found
\* expired has returned "not found", the id still having data written and
\* not deleted.
ExpiryWitness ==
    /\ sret.op = "Get" /\ sret.err = ErrStorageNotFound
    /\ sret.id \in hist.gone
    /\ hist.written[sret.id] = "hello"

-----------------------------------------------------------------------------
(* A MemoryStorage shared by goroutines.  Load, Store and Delete of         *)
(* sync.Map are atomic, and so are SetSessionData and DelSessionData, each  *)
(* one of them.  RefreshSessionData is a Load followed by a Store, and      *)
(* between the two any other goroutine may run.  refresh[c] is caller c's   *)
(* RefreshSessionData call: where it is, its arguments, the entry it        *)
(* loaded and what it returned.                                             *)

IdleRefresh == [pc |-> "idle", id |-> "", ttl |-> 0, entry |-> Nil, err |-> Nil]

\* The one id all goroutines work on.
RefreshIds == {"abc123"}

InitRefresh ==
    /\ storage = <<>>
    /\ now = 0
    /\ sret = NoSCall
    /\ hist = Nil
    /\ refresh = [c \in Callers |-> IdleRefresh]
    /\ NoRouter /\ NoCalls /\ NoCond
    /\ NoSession /\ NoHeader /\ NoShutdown /\ NoGotalk /\ NoPool

\* v, ok := s.Load(sessionId); if !ok { return ErrStorageNotFound }
RefreshLoad(c) ==
    \E id \in RefreshIds, ttl \in TTLs :
        /\ refresh[c].pc # "loaded"
        /\ refresh' = [refresh EXCEPT ![c] =
              IF id \in DOMAIN storage
              THEN [pc |-> "loaded", id |-> id, ttl |-> ttl,
                    entry |-> storage[id], err |-> Nil]
              ELSE [pc |-> "returned", id |-> id, ttl |-> ttl,
                    entry |-> Nil, err |-> ErrStorageNotFound]]
        /\ UNCHANGED <<storageVars, routerVars, callVars, condVars>>
        /\ UNCHANGED <<session, header, shutdown, gotalk, pool>>

\* entry.expires = time.Now().Add(ttl); s.Store(sessionId, entry); return nil
RefreshStore(c) ==
    /\ refresh[c].pc = "loaded"
    /\ storage' = Store(storage, refresh[c].id,
                        [refresh[c].entry EXCEPT !.expires = now + refresh[c].ttl])
    /\ refresh' = [refresh EXCEPT ![c].pc = "returned"]
    /\ UNCHANGED <<now, sret, hist, routerVars, callVars, condVars>>
    /\ UNCHANGED <<session, header, shutdown, gotalk, pool>>

\* SetSessionData called by another goroutine.
ConcSetSessionData ==
    \E id \in RefreshIds, data \in Datas, ttl \in TTLs :
        /\ Returned("Set", id, data, ttl,
                    SetSessionData(storage, now, id, data, ttl))
        /\ UNCHANGED <<now, hist, routerVars, callVars, condVars, moreVars>>

\* DelSessionData called by another goroutine.
ConcDelSessionData ==
    \E id \in RefreshIds :
        /\ Returned("Del", id, Nil, 0, DelSessionData(storage, id))
        /\ UNCHANGED <<now, hist, routerVars, callVars, condVars, moreVars>>

NextRefresh ==
    \/ \E c \in Callers : RefreshLoad(c)
    \/ \E c \in Callers : RefreshStore(c)
    \/ ConcSetSessionData
    \/ ConcDelSessionData
    \/ Sleep

SpecRefresh == InitRefresh /\ [][NextRefresh]_vars

\* C21: the Store of a RefreshSessionData call changes the expiry time of
\* an entry that is there and nothing else: it puts no data in the place of
\* data another goroutine has written since the Load, and it creates no
\* entry where another goroutine has deleted the one loaded.
RefreshKeepsData ==
    [][\A c \in Callers :
          (refresh[c].pc = "loaded" /\ refresh'[c].pc = "returned") =>
              /\ refresh[c].id \in DOMAIN storage
              /\ storage'[refresh[c].id].data = storage[refresh[c].id].data
      ]_vars

-----------------------------------------------------------------------------
(* session.go: a Session is its ID, its values and its dirty flag.  A Go    *)
(* map is [isNil, map]: a nil map has no keys, and is not the empty map.    *)
(* The Store's storage is a MemoryStorage.  Encoded values are the bytes    *)
(* gob makes of the map, here a header and "key=value;" for each key; gob   *)
(* fails on a value of a type it cannot encode.                             *)

\* A value gob cannot encode (a channel, a func).
Unencodable == "chan"

ErrEncode == "gob: type not registered for interface"

\* The error of uuid.Gen.
ErrGen == "uuid: no random bytes"

\* Store.TTL
StoreTTL == 1

\* A nil map.
NilMap == [isNil |-> TRUE, map |-> <<>>]

\* make(map[string]interface{}) filled with m
MakeMap(m) == [isNil |-> FALSE, map |-> m]

ZeroSession == [ID |-> "", values |-> NilMap, dirty |-> FALSE]

\* len(s.values)
LenValues(values) == Cardinality(DOMAIN values.map)

\* delete(s.values, key)
DeleteKey(values, key) ==
    [values EXCEPT !.map = [k \in DOMAIN values.map \ {key} |-> values.map[k]]]

\* (*Session).Set
SessionSet(s, key, value) ==
    IF s.values.isNil
    THEN IF value # Nil
         THEN [s EXCEPT !.values = MakeMap([k \in {key} |-> value]),
                        !.dirty = TRUE]
         ELSE s
    ELSE IF value = Nil
         THEN [s EXCEPT !.values = DeleteKey(s.values, key), !.dirty = TRUE]
         ELSE [s EXCEPT !.values = MakeMap(Store(s.values.map, key, value)),
                        !.dirty = TRUE]

\* (*Session).Del
SessionDel(s, key) ==
    IF ~s.values.isNil /\ key \in DOMAIN s.values.map
    THEN [s EXCEPT !.values = DeleteKey(s.values, key), !.dirty = TRUE]
    ELSE s

\* (*Session).Clear
SessionClear(s) ==
    IF LenValues(s.values) # 0
    THEN [s EXCEPT !.values = NilMap, !.dirty = TRUE]
    ELSE s

\* The keys a map can have, in the order gob writes them here.
KeyOrder == <<"user">>

GobHeader == "gob:"

\* The bytes of the keys from the i-th on.
RECURSIVE EncodeFrom(_, _)
EncodeFrom(m, i) ==
    IF i > Len(KeyOrder) THEN ""
    ELSE (IF KeyOrder[i] \in DOMAIN m
          THEN KeyOrder[i] \o "=" \o m[KeyOrder[i]] \o ";"
          ELSE "") \o EncodeFrom(m, i + 1)

\* encodeSessionValues: [data, err]
encodeSessionValues(values) ==
    IF \E k \in DOMAIN values.map : values.map[k] = Unencodable
    THEN [data |-> Nil, err |-> ErrEncode]
    ELSE [data |-> GobHeader \o EncodeFrom(values.map, 1), err |-> Nil]

ErrDecode == "unexpected EOF"

\* The map of the bytes str, "key=value;" over and over.
RECURSIVE DecodeFrom(_)
DecodeAt(str, e, sc) ==
    Store(DecodeFrom(Slice(str, sc + 1, Len(str))),
          Slice(str, 0, e), Slice(str, e + 1, sc))

DecodeFrom(str) ==
    IF str = "" THEN <<>>
    ELSE DecodeAt(str, IndexByte(str, "="), IndexByte(str, ";"))

\* decodeSessionValues: [values, err]
decodeSessionValues(data) ==
    IF HasPrefix(data, GobHeader)
    THEN [values |-> MakeMap(DecodeFrom(Slice(data, Len(GobHeader), Len(data)))),
          err |-> Nil]
    ELSE [values |-> NilMap, err |-> ErrDecode]

\* Load once the data is decoded.
LoadDecoded(s, id, dec) ==
    IF dec.err = Nil THEN [s EXCEPT !.ID = id, !.values = dec.values] ELSE s

\* Load once GetSessionData has returned got: [session, s, err]
Loaded(s, id, got) ==
    [session |-> IF got.err = Nil /\ Len(got.data) > 0
                 THEN LoadDecoded([s EXCEPT !.ID = ""], id,
                                  decodeSessionValues(got.data))
                 ELSE [s EXCEPT !.ID = ""],
     s       |-> got.s,
     err     |-> IF got.err = Nil /\ Len(got.data) > 0
                 THEN decodeSessionValues(got.data).err
                 ELSE got.err]

\* (*Session).Load at time t on the storage st: [session, s, err]
SessionLoad(s, st, t, id) == Loaded(s, id, GetSessionData(st, t, id))

\* Save having made no call on the storage.
NoStorageCall == [op |-> "none", id |-> ""]

\* What Save returns: the session, the storage, the error, and the call it
\* made on the storage.
Saved(s, res, op, id) ==
    [session |-> s, s |-> res.s, err |-> res.err, call |-> [op |-> op, id |-> id]]

\* Save of a dirty session without values once DelSessionData has returned.
SaveDeleted(s, res) ==
    Saved(IF res.err = Nil THEN [s EXCEPT !.ID = "", !.dirty = FALSE] ELSE s,
          res, "Del", s.ID)

\* Save of a dirty session once SetSessionData has returned.
SaveStored(s, res) ==
    Saved(IF res.err = Nil THEN [s EXCEPT !.dirty = FALSE] ELSE s,
          res, "Set", s.ID)

\* Save of a dirty session with values, encoded without error, gen being
\* what uuid.Gen returns when it is called.
SaveEncoded(s, st, t, data, gen) ==
    IF Len(s.ID) = 0 /\ gen.err = Nil
    THEN SaveStored([s EXCEPT !.ID = gen.id],
                    SetSessionData(st, t, gen.id, data, StoreTTL))
    ELSE SaveStored(s, SetSessionData(st, t, s.ID, data, StoreTTL))

\* Save of a dirty session with values once they are encoded.
SaveDirty(s, st, t, enc, gen) ==
    IF enc.err = Nil
    THEN SaveEncoded(s, st, t, enc.data, gen)
    ELSE [session |-> s, s |-> st, err |-> enc.err, call |-> NoStorageCall]

\* (*Session).Save at time t on the storage st: [session, s, err, call]
Save(s, st, t, gen) ==
    IF s.dirty
    THEN IF LenValues(s.values) = 0
         THEN SaveDeleted(s, DelSessionData(st, s.ID))
         ELSE SaveDirty(s, st, t, encodeSessionValues(s.values), gen)
    ELSE IF Len(s.ID) > 0
         THEN Saved(s, RefreshSessionData(st, t, s.ID, StoreTTL), "Refresh", s.ID)
         ELSE [session |-> s, s |-> st, err |-> Nil, call |-> NoStorageCall]

-----------------------------------------------------------------------------
(* Two Sessions of one Store, as two requests have them, over a             *)
(* MemoryStorage and a clock.  session.of[i] is the i-th Session and        *)
(* session.ret the call last made on one of them.                           *)

Sessions == {1, 2}

Keys == {"user"}

Vals == {"bob", Unencodable}

\* The identifiers uuid.Gen hands out.
Uuids == {"0Ab1", "0Ab2"}

\* What uuid.Gen can return: an identifier not in use, or an error.
GenOutcomes(st) ==
    {[id |-> u, err |-> Nil] : u \in Uuids \ DOMAIN st}
        \cup {[id |-> Nil, err |-> ErrGen]}

\* uuid.Gen not called.
NoGen == [id |-> Nil, err |-> Nil]

NoSessCall ==
    [op |-> "none", who |-> 0, err |-> Nil, call |-> NoStorageCall, gen |-> NoGen]

InitSession ==
    /\ storage = <<>>
    /\ now = 0
    /\ sret = Nil
    /\ hist = Nil
    /\ session = [of |-> [i \in Sessions |-> ZeroSession], ret |-> NoSessCall]
    /\ NoRouter /\ NoCalls /\ NoCond
    /\ NoRefresh /\ NoHeader /\ NoShutdown /\ NoGotalk /\ NoPool

\* A call on session i that does not reach the storage.
Edited(i, op, s) ==
    /\ session' = [of |-> [session.of EXCEPT ![i] = s],
                   ret |-> [NoSessCall EXCEPT !.op = op, !.who = i]]
    /\ UNCHANGED <<storageVars, routerVars, callVars, condVars>>
    /\ UNCHANGED <<refresh, header, shutdown, gotalk, pool>>

DoSessionSet ==
    \E i \in Sessions, key \in Keys, value \in Vals \cup {Nil} :
        Edited(i, "Set", SessionSet(session.of[i], key, value))

DoSessionDel ==
    \E i \in Sessions, key \in Keys :
        Edited(i, "Del", SessionDel(session.of[i], key))

DoSessionClear ==
    \E i \in Sessions : Edited(i, "Clear", SessionClear(session.of[i]))

\* A call on session i that has returned res from the storage.
Stored(i, op, res, call, gen) ==
    /\ session' = [of |-> [session.of EXCEPT ![i] = res.session],
                   ret |-> [op |-> op, who |-> i, err |-> res.err,
                            call |-> call, gen |-> gen]]
    /\ storage' = res.s
    /\ UNCHANGED <<now, sret, hist, routerVars, callVars, condVars>>
    /\ UNCHANGED <<refresh, header, shutdown, gotalk, pool>>

DoSessionLoad ==
    \E i \in Sessions, id \in Uuids :
        Stored(i, "Load", SessionLoad(session.of[i], storage, now, id),
               NoStorageCall, NoGen)

DoSave ==
    \E i \in Sessions, gen \in GenOutcomes(storage) :
        Stored(i, "Save", Save(session.of[i], storage, now, gen),
               Save(session.of[i], storage, now, gen).call, gen)

\* The clock of the sessions stops here.
MaxSessionTime == 2

\* The clock moves on.
SessionSleep ==
    /\ now < MaxSessionTime
    /\ now' = now + 1
    /\ session' = [session EXCEPT !.ret = [NoSessCall EXCEPT !.op = "Sleep"]]
    /\ UNCHANGED <<storage, sret, hist, routerVars, callVars, condVars>>
    /\ UNCHANGED <<refresh, header, shutdown, gotalk, pool>>

NextSession ==
    \/ DoSessionSet
    \/ DoSessionDel
    \/ DoSessionClear
    \/ DoSessionLoad
    \/ DoSave
    \/ SessionSleep

SpecSession == InitSession /\ [][NextSession]_vars

\* Save of a session that was old has returned err and left it new, the
\* storage going from st to st2 at time t.
SaveOutcome(old, new, err, st, st2, t) ==
    /\ err = Nil =>
          /\ ~new.dirty
          /\ (old.dirty /\ LenValues(old.values) > 0) =>
                /\ new.ID # ""
                /\ old.ID # "" => new.ID = old.ID
                /\ new.ID \in DOMAIN st2
                /\ st2[new.ID].data = encodeSessionValues(old.values).data
          /\ (old.dirty /\ LenValues(old.values) = 0) =>
                /\ old.ID \notin DOMAIN st2
                /\ new.ID = ""
          /\ (~old.dirty /\ old.ID # "") =>
                /\ new = old
                /\ DOMAIN st2 = DOMAIN st
                /\ \A k \in DOMAIN st :
                      /\ st2[k].data = st[k].data
                      /\ k # old.ID => st2[k] = st[k]
                /\ st2[old.ID].expires = t + StoreTTL
          /\ (~old.dirty /\ old.ID = "") =>
                /\ new = old
                /\ st2 = st
    /\ err # Nil => new.dirty = old.dirty

\* C22: after Save returns nil, dirty is false; a session that was dirty
\* with values has a non-empty ID (its own, or a new one when it had none)
\* and the storage holds its encoded values under that ID; one that was
\* dirty without values has its old ID's data deleted and the ID "";
\* one that was not dirty and had an ID has only its expiry time renewed;
\* one that was not dirty and had no ID leaves the storage alone.  When
\* Save returns an error, dirty is as it was.
SaveStateMachine ==
    [][\A i \in Sessions :
          (session'.ret.op = "Save" /\ session'.ret.who = i) =>
              SaveOutcome(session.of[i], session'.of[i], session'.ret.err,
                          storage, storage', now)
      ]_vars

\* SaveStateMachine for the calls in which uuid.Gen does not fail.
SaveStateMachineGenerating ==
    [][\A i \in Sessions :
          (/\ session'.ret.op = "Save" /\ session'.ret.who = i
           /\ session'.ret.gen.err = Nil) =>
              SaveOutcome(session.of[i], session'.of[i], session'.ret.err,
                          storage, storage', now)
      ]_vars

\* Save is called on a dirty session without ID whose values gob encodes.
NeedsNewID(s) ==
    /\ s.dirty
    /\ s.ID = ""
    /\ LenValues(s.values) > 0
    /\ encodeSessionValues(s.values).err = Nil

\* C30: Save never calls SetSessionData with an empty session ID; when a
\* dirty session without ID has data and uuid.Gen fails, Save returns the
\* error of uuid.Gen, stores nothing and leaves dirty true.
SaveNeverStoresEmptyID ==
    [][\A i \in Sessions :
          (session'.ret.op = "Save" /\ session'.ret.who = i) =>
              /\ session'.ret.call # [op |-> "Set", id |-> ""]
              /\ (NeedsNewID(session.of[i]) /\ session'.ret.gen.err # Nil) =>
                    /\ session'.ret.err = session'.ret.gen.err
                    /\ storage' = storage
                    /\ session'.of[i].dirty
      ]_vars

-----------------------------------------------------------------------------
(* util.go: HeaderSetCookie on the Set-Cookie lines of an http.Header, in   *)
(* the order the header holds them.  header.Values returns the header's     *)
(* own slice, so that an assignment to one of its elements changes the      *)
(* header.                                                                  *)

\* textproto.TrimString
TrimString(s) == Trim(s, WhiteSpace)

\* The name once ";" is found at i and "=" at e.
NameBefore(cookie, i, e) ==
    IF e < 0 \/ e > i THEN "" ELSE TrimString(Slice(cookie, 0, e))

\* parseCookieName
parseCookieName(cookie) ==
    IF IndexByte(cookie, ";") < 0 THEN ""
    ELSE NameBefore(cookie, IndexByte(cookie, ";"), IndexByte(cookie, "="))

ErrInvalidCookie == "invalid cookie"

\* The 1-based position of the first line from i on whose name is name, or 0.
RECURSIVE FindCookie(_, _, _)
FindCookie(lines, name, i) ==
    IF i > Len(lines) THEN 0
    ELSE IF parseCookieName(lines[i]) = name THEN i
    ELSE FindCookie(lines, name, i + 1)

\* HeaderSetCookie that adds the cookie whatever the header holds.
SetCookieAdding(lines, cookie, at) ==
    [lines |-> Append(lines, cookie), err |-> Nil]

\* HeaderSetCookie once the loop has found the name at position at, or not (0).
SetCookieAt(lines, cookie, at) ==
    IF at > 0
    THEN [lines |-> [lines EXCEPT ![at] = cookie], err |-> Nil]
    ELSE [lines |-> Append(lines, cookie), err |-> Nil]

\* HeaderSetCookie: [lines, err]
HeaderSetCookie(lines, cookie) ==
    IF Len(parseCookieName(cookie)) = 0
    THEN [lines |-> lines, err |-> ErrInvalidCookie]
    ELSE SetCookieAt(lines, cookie, FindCookie(lines, parseCookieName(cookie), 1))

-----------------------------------------------------------------------------
(* A header, empty at first, on which HeaderSetCookie is called over and    *)
(* over.  header.lines are its Set-Cookie lines, header.ret the call last   *)
(* made; header.latest keeps, for each name set so far, the cookie last     *)
(* set, and header.order the names in the order they were first set.        *)

Cookies ==
    {"foo=123;", "foo=789; Path=/", " foo =1;", "bar=456;", "baz=;",
     "foo=bar", "novalue;", ";foo=1", "=v;", " =v;", ""}

InitHeader ==
    /\ header = [lines |-> <<>>, ret |-> [cookie |-> "", err |-> Nil, called |-> FALSE],
                 latest |-> <<>>, order |-> <<>>]
    /\ NoRouter /\ NoCalls /\ NoStorage /\ NoCond
    /\ NoRefresh /\ NoSession /\ NoShutdown /\ NoGotalk /\ NoPool

\* HeaderSetCookie(header, cookie) has returned res; name is what
\* parseCookieName makes of the cookie.
CookieSet(cookie, name, res) ==
    header' =
        [lines  |-> res.lines,
         ret    |-> [cookie |-> cookie, err |-> res.err, called |-> TRUE],
         latest |-> IF name = "" THEN header.latest
                    ELSE Store(header.latest, name, cookie),
         order  |-> IF name = "" \/ name \in DOMAIN header.latest
                    THEN header.order
                    ELSE Append(header.order, name)]

DoHeaderSetCookie ==
    \E cookie \in Cookies :
        /\ CookieSet(cookie, parseCookieName(cookie),
                     HeaderSetCookie(header.lines, cookie))
        /\ UNCHANGED <<routerVars, callVars, storageVars, condVars>>
        /\ UNCHANGED <<refresh, session, shutdown, gotalk, pool>>

NextHeader == DoHeaderSetCookie

SpecHeader == InitHeader /\ [][NextHeader]_vars

\* C23: after any sequence of calls on an empty header there is exactly one
\* line for each name set, at the position at which the name was first set
\* and holding the cookie last set for it; a call with a cookie without a
\* name returns an error and leaves the lines as they were, and every other
\* call returns nil and leaves the lines of other names as they were.
OneLinePerName ==
    [][/\ Len(header'.lines) = Len(header'.order)
       /\ \A i \in 1..Len(header'.lines) :
             /\ parseCookieName(header'.lines[i]) = header'.order[i]
             /\ header'.lines[i] = header'.latest[header'.order[i]]
       /\ \A i, j \in 1..Len(header'.lines) :
             parseCookieName(header'.lines[i]) = parseCookieName(header'.lines[j])
                 => i = j
       /\ IF parseCookieName(header'.ret.cookie) = ""
          THEN /\ header'.ret.err # Nil
               /\ header'.lines = header.lines
          ELSE /\ header'.ret.err = Nil
               /\ \A i \in 1..Len(header.lines) :
                     parseCookieName(header.lines[i])
                             # parseCookieName(header'.ret.cookie)
                         => header'.lines[i] = header.lines[i]
      ]_vars

\* C23: three names are set, the first of them a second time after the
\* others, and the line of the first is still the first and holds the cookie
\* last set; the last call had a cookie without a name.
OneLinePerNameWitness ==
    /\ header.lines = <<"foo=789; Path=/", "bar=456;", "baz=;">>
    /\ header.ret.called
    /\ header.ret.cookie = "foo=bar"
    /\ header.ret.err = ErrInvalidCookie

-----------------------------------------------------------------------------
(* server.go, graceful shutdown.  The fields of shutdown:                   *)
(*   mu       who holds gracefulShutdownMu ("free" or "handler"; the        *)
(*            critical section of EnableGracefulShutdown is one step)       *)
(*   servers  gracefulShutdownServers                                       *)
(*   chan     gracefulShutdownChan: 0 for nil, or the number of a channel   *)
(*   made     the channels made so far                                      *)
(*   closed   for each channel, how often it was closed                     *)
(*   timeout  for each server its gracefulShutdownTimeout: the value, the   *)
(*            value before the last write, and whether the write was        *)
(*            followed by a Lock of its writer.  The field is written       *)
(*            outside the mutex: a racing read gives either value.          *)
(*   disabled the servers DisableGracefulShutdown was called on             *)
(*   pc       each server's caller: "idle", or "enabling" between the write *)
(*            of the timeout and the Lock in EnableGracefulShutdown         *)
(*   got      the channel EnableGracefulShutdown last returned for a server *)
(*   handler  the goroutine started with the channel: "none", "waiting" at  *)
(*            <-quit, "signalled", "running" gracefulShutdownAll            *)
(*   wg       the WaitGroup's counter                                       *)
(*   call     for each element of servers the call shutdownServer makes:    *)
(*            "pending", "Shutdown" or "Close" while it runs, and           *)
(*            "Shutdown returned" or "Close returned"                       *)
(*   sigs     the signals sent so far                                       *)
(*   signalled the channels whose handler was sent a signal                 *)

Servers == {1, 2}

\* A shutdownTimeout that is not 0.
SomeTimeout == 5

MaxChans == 2

\* len(gracefulShutdownServers) stops here.
MaxRegistered == 3

MaxSignals == 2

InitShutdown ==
    /\ shutdown =
          [mu |-> "free", servers |-> <<>>, chan |-> 0, made |-> 0,
           closed |-> [c \in 1..MaxChans |-> 0],
           timeout |-> [s \in Servers |-> [cur |-> 0, old |-> 0, synced |-> TRUE]],
           disabled |-> {},
           pc |-> [s \in Servers |-> "idle"],
           got |-> [s \in Servers |-> 0],
           handler |-> "none", wg |-> 0, call |-> <<>>,
           sigs |-> 0, signalled |-> {}]
    /\ NoRouter /\ NoCalls /\ NoStorage /\ NoCond
    /\ NoRefresh /\ NoSession /\ NoHeader /\ NoGotalk /\ NoPool

\* The other variables stay as they are.
ShutdownOnly ==
    /\ UNCHANGED <<routerVars, callVars, storageVars, condVars>>
    /\ UNCHANGED <<refresh, session, header, gotalk, pool>>

\* A write of gracefulShutdownTimeout, outside the mutex.
WriteTimeout(t, value) == [cur |-> value, old |-> t.cur, synced |-> FALSE]

\* The values a read of gracefulShutdownTimeout can give.
ReadTimeout(t) == IF t.synced THEN {t.cur} ELSE {t.cur, t.old}

\* EnableGracefulShutdown up to the Lock: s.gracefulShutdownTimeout = shutdownTimeout
EnableWrite(s) ==
    /\ shutdown.pc[s] = "idle"
    /\ shutdown.made < MaxChans \/ shutdown.chan # 0
    /\ Len(shutdown.servers) + Cardinality({x \in Servers : shutdown.pc[x] = "enabling"})
          < MaxRegistered
    /\ shutdown' = [shutdown EXCEPT
                      !.timeout[s] = WriteTimeout(@, SomeTimeout),
                      !.pc[s] = "enabling"]
    /\ ShutdownOnly

\* EnableGracefulShutdown from the Lock on: the server is appended, the
\* channel is made and the signal handler started if there is none, and
\* the channel is returned.
EnableRegister(s) ==
    /\ shutdown.pc[s] = "enabling"
    /\ shutdown.mu = "free"
    /\ shutdown' =
          IF shutdown.chan = 0
          THEN [shutdown EXCEPT
                  !.servers = Append(@, s),
                  !.timeout[s].synced = TRUE,
                  !.chan = shutdown.made + 1,
                  !.made = @ + 1,
                  !.handler = "waiting",
                  !.got[s] = shutdown.made + 1,
                  !.pc[s] = "idle"]
          ELSE [shutdown EXCEPT
                  !.servers = Append(@, s),
                  !.timeout[s].synced = TRUE,
                  !.got[s] = shutdown.chan,
                  !.pc[s] = "idle"]
    /\ ShutdownOnly

\* DisableGracefulShutdown
DisableGracefulShutdown(s) ==
    /\ shutdown.pc[s] = "idle"
    /\ shutdown.timeout[s].cur # 0
    /\ shutdown' = [shutdown EXCEPT
                      !.timeout[s] = WriteTimeout(@, 0),
                      !.disabled = @ \cup {s}]
    /\ ShutdownOnly

\* SIGINT or SIGTERM is sent to the process and put in quit.
Signal ==
    /\ shutdown.handler = "waiting"
    /\ shutdown.sigs < MaxSignals
    /\ shutdown' = [shutdown EXCEPT
                      !.handler = "signalled",
                      !.sigs = @ + 1,
                      !.signalled = @ \cup {shutdown.chan}]
    /\ ShutdownOnly

\* A signal that finds quit full, or no goroutine reading it.
SignalLost ==
    /\ shutdown.handler \in {"signalled", "running"}
    /\ shutdown.sigs < MaxSignals
    /\ shutdown' = [shutdown EXCEPT !.sigs = @ + 1]
    /\ ShutdownOnly

\* <-quit; gracefulShutdownAll up to the loop's end: the mutex is taken and
\* wg.Add(1) and shutdownServer come for every server, in a goroutine for
\* all but the last.
HandlerLock ==
    /\ shutdown.handler = "signalled"
    /\ shutdown.mu = "free"
    /\ shutdown' = [shutdown EXCEPT
                      !.mu = "handler",
                      !.handler = "running",
                      !.wg = Len(shutdown.servers),
                      !.call = [i \in 1..Len(shutdown.servers) |-> "pending"]]
    /\ ShutdownOnly

\* shutdownServer reads the timeout and calls Close or Shutdown.
StartCall(i) ==
    /\ shutdown.handler = "running"
    /\ i \in 1..Len(shutdown.call)
    /\ shutdown.call[i] = "pending"
    /\ \E t \in ReadTimeout(shutdown.timeout[shutdown.servers[i]]) :
          shutdown' = [shutdown EXCEPT
                         !.call[i] = IF t = 0 THEN "Close" ELSE "Shutdown"]
    /\ ShutdownOnly

\* Close or Shutdown returns, and the deferred wg.Done() runs.
ReturnCall(i) ==
    /\ shutdown.handler = "running"
    /\ i \in 1..Len(shutdown.call)
    /\ shutdown.call[i] \in {"Close", "Shutdown"}
    /\ shutdown' = [shutdown EXCEPT
                      !.call[i] = @ \o " returned",
                      !.wg = @ - 1]
    /\ ShutdownOnly

\* The end of gracefulShutdownAll that does not wait for the WaitGroup.
CloseNotWaiting(wg) ==
    /\ shutdown.handler = "running"
    /\ shutdown' = [shutdown EXCEPT
                      !.closed[shutdown.chan] = @ + 1,
                      !.chan = 0,
                      !.servers = <<>>,
                      !.mu = "free",
                      !.handler = "none"]
    /\ ShutdownOnly

\* wg.Wait() returns; close(gracefulShutdownChan); both variables are set to
\* nil and the mutex is released.
CloseChan(wg) ==
    /\ shutdown.handler = "running"
    /\ wg = 0
    /\ shutdown' = [shutdown EXCEPT
                      !.closed[shutdown.chan] = @ + 1,
                      !.chan = 0,
                      !.servers = <<>>,
                      !.mu = "free",
                      !.handler = "none"]
    /\ ShutdownOnly

HandlerClose == CloseChan(shutdown.wg)

NextShutdown ==
    \/ \E s \in Servers : EnableWrite(s)
    \/ \E s \in Servers : EnableRegister(s)
    \/ \E s \in Servers : DisableGracefulShutdown(s)
    \/ Signal
    \/ SignalLost
    \/ HandlerLock
    \/ \E i \in 1..MaxRegistered : StartCall(i)
    \/ \E i \in 1..MaxRegistered : ReturnCall(i)
    \/ HandlerClose

SpecShutdown == InitShutdown /\ [][NextShutdown]_vars

\* The goroutines run: the handler is scheduled, the mutex is handed to a
\* goroutine that waits for it, and every Close and Shutdown returns.
FairShutdown ==
    /\ SF_vars(HandlerLock)
    /\ WF_vars(HandlerClose)
    /\ \A i \in 1..MaxRegistered : WF_vars(StartCall(i)) /\ WF_vars(ReturnCall(i))

SpecShutdownLive == SpecShutdown /\ FairShutdown

\* The calls of the servers registered have all returned, Close only for a
\* server DisableGracefulShutdown was called on.
AllReturned ==
    /\ Len(shutdown.call) = Len(shutdown.servers)
    /\ \A i \in 1..Len(shutdown.servers) :
          \/ shutdown.call[i] = "Shutdown returned"
          \/ /\ shutdown.call[i] = "Close returned"
             /\ shutdown.servers[i] \in shutdown.disabled

\* C24: the channel EnableGracefulShutdown returned is closed only after
\* Shutdown, or Close for a server DisableGracefulShutdown was called on,
\* has returned for every server registered when the signal is handled; the
\* servers registered share the one channel; no channel is closed twice;
\* and once the signal is sent the channel is closed in the end.
GracefulShutdownOrder ==
    /\ [][\A c \in 1..MaxChans :
             shutdown'.closed[c] # shutdown.closed[c] =>
                 /\ c = shutdown.chan
                 /\ AllReturned
         ]_vars
    /\ [](\A c \in 1..MaxChans : shutdown.closed[c] <= 1)
    /\ [](\A i \in 1..Len(shutdown.servers) :
             /\ shutdown.chan # 0
             /\ shutdown.got[shutdown.servers[i]] = shutdown.chan)
    /\ \A c \in 1..MaxChans :
          (c \in shutdown.signalled) ~> (shutdown.closed[c] = 1)

\* C24: the first channel is closed after the signal, three registrations
\* having been shut down, one by Close and one by Shutdown among them.
GracefulShutdownWitness ==
    /\ shutdown.closed[1] = 1
    /\ shutdown.chan = 0
    /\ Len(shutdown.call) = 3
    /\ \E i, j \in 1..3 :
          /\ shutdown.call[i] = "Close returned"
          /\ shutdown.call[j] = "Shutdown returned"

-----------------------------------------------------------------------------
(* server.go, the gotalk sockets of a Server.  gotalk.socks is gotalkSocks, *)
(* gotalk.reading tells that RangeGotalkSockets holds the read lock (the    *)
(* two critical sections that write are one step each), gotalk.todo are     *)
(* the sockets its loop has yet to visit, and gotalk.passed the socket last *)
(* passed to f with whether it was closed then.  For each socket,           *)
(* gotalk.sock tells where gotalkOnConnect is, whether the socket is        *)
(* closed and by whom, whether sock.CloseHandler is the Server's, whether   *)
(* a Close is about to call it, and whether it has run.  A socket is closed *)
(* once, by any goroutine, and Close calls the CloseHandler it finds.       *)

Socks == {1, 2}

NewSock ==
    [pc |-> "new", closed |-> FALSE, byUser |-> FALSE, handler |-> FALSE,
     closing |-> FALSE, ran |-> FALSE]

NoPassed == [sock |-> 0, closed |-> FALSE]

InitGotalk ==
    /\ gotalk = [socks |-> {}, reading |-> FALSE, todo |-> {},
                 passed |-> NoPassed, sock |-> [s \in Socks |-> NewSock]]
    /\ NoRouter /\ NoCalls /\ NoStorage /\ NoCond
    /\ NoRefresh /\ NoSession /\ NoHeader /\ NoShutdown /\ NoPool

\* The other variables stay as they are.
GotalkOnly ==
    /\ UNCHANGED <<routerVars, callVars, storageVars, condVars>>
    /\ UNCHANGED <<refresh, session, header, shutdown, pool>>

\* gotalkOnConnect: the user's handler runs, and closes the socket or not.
OnConnectUser(s) ==
    /\ gotalk.sock[s].pc = "new"
    /\ \E close \in BOOLEAN :
          gotalk' = [gotalk EXCEPT
                       !.sock[s].pc = "user",
                       !.sock[s].closed = close,
                       !.sock[s].byUser = close]
    /\ GotalkOnly

\* if sock.IsClosed() { return }
CheckClosed(s) ==
    /\ gotalk.sock[s].pc = "user"
    /\ gotalk' = [gotalk EXCEPT
                    !.sock[s].pc = IF gotalk.sock[s].closed THEN "returned"
                                   ELSE "open"]
    /\ GotalkOnly

\* sock.CloseHandler = func(...) {...}
SetCloseHandler(s) ==
    /\ gotalk.sock[s].pc = "open"
    /\ gotalk' = [gotalk EXCEPT
                    !.sock[s].pc = "handled",
                    !.sock[s].handler = TRUE]
    /\ GotalkOnly

\* s.gotalkSocksMu.Lock(); s.gotalkSocks[sock] = 1; s.gotalkSocksMu.Unlock()
RegisterSock(s, pc) ==
    /\ pc = "handled"
    /\ ~gotalk.reading
    /\ gotalk' = [gotalk EXCEPT
                    !.socks = @ \cup {s},
                    !.sock[s].pc = "registered"]
    /\ GotalkOnly

Register(s) == RegisterSock(s, gotalk.sock[s].pc)

\* The socket is closed, by the peer or by a goroutine of the program, and
\* Close is about to call the CloseHandler the socket has.
SockClose(s) ==
    /\ gotalk.sock[s].pc # "new"
    /\ ~gotalk.sock[s].closed
    /\ gotalk' = [gotalk EXCEPT
                    !.sock[s].closed = TRUE,
                    !.sock[s].closing = gotalk.sock[s].handler]
    /\ GotalkOnly

\* The Server's close handler: Lock, delete(s.gotalkSocks, sock), Unlock,
\* sock.CloseHandler = nil.
CloseHandler(s) ==
    /\ gotalk.sock[s].closing
    /\ ~gotalk.reading
    /\ gotalk' = [gotalk EXCEPT
                    !.socks = @ \ {s},
                    !.sock[s].closing = FALSE,
                    !.sock[s].handler = FALSE,
                    !.sock[s].ran = TRUE]
    /\ GotalkOnly

\* RangeGotalkSockets: RLock, and the loop begins.
RangeStart ==
    /\ ~gotalk.reading
    /\ gotalk' = [gotalk EXCEPT
                    !.reading = TRUE, !.todo = gotalk.socks, !.passed = NoPassed]
    /\ GotalkOnly

\* f is called with the next socket, and tells whether to go on.
RangeCall ==
    /\ gotalk.reading
    /\ \E s \in gotalk.todo, more \in BOOLEAN :
          gotalk' = [gotalk EXCEPT
                       !.todo = IF more THEN @ \ {s} ELSE {},
                       !.passed = [sock |-> s, closed |-> gotalk.sock[s].closed]]
    /\ GotalkOnly

\* The loop is over: RUnlock.
RangeEnd ==
    /\ gotalk.reading
    /\ gotalk.todo = {}
    /\ gotalk' = [gotalk EXCEPT !.reading = FALSE]
    /\ GotalkOnly

NextGotalk ==
    \/ \E s \in Socks : OnConnectUser(s)
    \/ \E s \in Socks : CheckClosed(s)
    \/ \E s \in Socks : SetCloseHandler(s)
    \/ \E s \in Socks : Register(s)
    \/ \E s \in Socks : SockClose(s)
    \/ \E s \in Socks : CloseHandler(s)
    \/ RangeStart
    \/ RangeCall
    \/ RangeEnd

SpecGotalk == InitGotalk /\ [][NextGotalk]_vars

\* Once a socket's close handler has run the socket is not in gotalkSocks.
ClosedIsUnregistered ==
    \A s \in Socks : gotalk.sock[s].ran => s \notin gotalk.socks

\* A socket closed by the user's OnConnect handler is not registered.
ClosedByUserIsUnregistered ==
    \A s \in Socks : gotalk.sock[s].byUser => s \notin gotalk.socks

\* RangeGotalkSockets passes no closed socket to f.
RangePassesOpen == ~gotalk.passed.closed

\* C25: in every interleaving of gotalkOnConnect, the close handler and
\* RangeGotalkSockets, a socket whose close handler has run is not in
\* gotalkSocks, a socket closed by the user's OnConnect handler is never
\* registered, and RangeGotalkSockets passes no closed socket to f.
RegistryHoldsConnected ==
    /\ ClosedIsUnregistered
    /\ ClosedByUserIsUnregistered
    /\ RangePassesOpen

-----------------------------------------------------------------------------
(* The positions in Route.Vars (SpecOne). *)

\* The positions a route's Vars holds.
Positions(route) == {route.Vars[name] : name \in DOMAIN route.Vars}

\* C26: for a compiled rule with k variables, named or anonymous, the
\* positions in Vars are 0..k-1, k is the number of capture groups of the
\* compiled pattern, and every position is an index into the values of any
\* Match of the route.
VarPositionsContiguous ==
    Len(router.Routes) = 1 =>
        /\ Positions(router.Routes[1]) = 0..(Len(VarsOf(rule)) - 1)
        /\ ~router.Routes[1].Pattern.nil =>
              router.Routes[1].Pattern.n = Len(VarsOf(rule))
        /\ (ret.op = "Match" /\ ~ret.m.nil) =>
              \A pos \in Positions(router.Routes[1]) : pos < Len(ret.m.values)

\* VarPositionsContiguous for the rules without a variable called "_"
\* whose custom patterns leave each variable one capture group.
VarPositionsContiguousNamed ==
    (/\ \A k \in 1..Len(VarsOf(rule)) : VarName(rule, k) # "_"
     /\ PlainPatterns(rule)) => VarPositionsContiguous

-----------------------------------------------------------------------------
(* The check of the constant prefix (SpecOne). *)

\* A matcher for the route at position i that leaves out the rejection of
\* a path that does not start with EntryPrefix.
WithoutPrefixCheck(r, i, conditions, path) ==
    LET route == r.Routes[i]
    IN  IF route.Conditions # 0 /\ BitAnd(route.Conditions, conditions) = 0
        THEN NilMatch
        ELSE IF route.Pattern.nil
        THEN IF route.IsPrefix \/ path = route.EntryPrefix
             THEN NewMatchNoValues(i, path)
             ELSE NilMatch
        ELSE MatchValues(i, path, route, FindStringSubmatch(route.Pattern, path))

\* The full comparison for the route at position i: equality for an exact
\* route without variables, the prefix for a subtree route without
\* variables, the compiled pattern for a route with variables.
FullComparison(r, i, conditions, path) ==
    LET route == r.Routes[i]
    IN  IF route.Conditions # 0 /\ BitAnd(route.Conditions, conditions) = 0
        THEN NilMatch
        ELSE IF route.Pattern.nil
        THEN IF \/ route.IsPrefix /\ HasPrefix(path, route.EntryPrefix)
                \/ path = route.EntryPrefix
             THEN NewMatchNoValues(i, path)
             ELSE NilMatch
        ELSE MatchValues(i, path, route, FindStringSubmatch(route.Pattern, path))

\* Match returns what a matcher returns in which the rejection of paths
\* that do not start with EntryPrefix is left out and nothing put in its
\* place: a subtree route without variables then accepts every path.
PrefixCheckLeftOut ==
    (ret.op = "Match" /\ Len(router.Routes) = 1) =>
        ret.m = WithoutPrefixCheck(router, 1, ret.conditions, ret.path)

\* No custom pattern of the rule holds a "|".
NoAlternation(text) ==
    \A k \in 1..Len(VarsOf(text)) : IndexByte(VarPattern(text, k), "|") = -1

\* C27: for a rule whose custom patterns hold no "|", Match returns what
\* the full comparison returns without a check of the prefix before it:
\* the check of the prefix rejects no path that the comparison of an exact
\* route, of a subtree route or of a pattern accepts.
PrefixCheckAgrees ==
    (ret.op = "Match" /\ Len(router.Routes) = 1 /\ NoAlternation(rule)) =>
        ret.m = FullComparison(router, 1, ret.conditions, ret.path)

\* C27 as stated: for every rule and every request Match returns what the
\* full comparison of an exact route, of a subtree route or of a pattern
\* returns without a check of the prefix before it.
PrefixCheckIsOptimisation ==
    (ret.op = "Match" /\ Len(router.Routes) = 1) =>
        ret.m = FullComparison(router, 1, ret.conditions, ret.path)

\* C27: a path without the prefix /a/ was rejected for a subtree rule with
\* a variable, as its pattern rejects it.
PrefixCheckWitness ==
    /\ ret.op = "Match"
    /\ rule = "/a/{x}/"
    /\ ret.path = "/b"
    /\ ret.m.nil
    /\ FullComparison(router, 1, ret.conditions, ret.path).nil

-----------------------------------------------------------------------------
(* Answers that last (Spec). *)

\* The answer after, to a request answered before, is the same match when
\* there was one, and an error exactly when there was one.
SameAnswer(before, after) ==
    /\ ~before.m.nil => after.m = before.m
    /\ before.err = Nil <=> after.err = Nil

\* C28: once a table has a route, a further Add, successful or failed,
\* changes no answer: a request that Match answered with a route and values
\* is answered with the same route and values, and a request is refused as
\* outside the base path after the Add exactly when it was before.
AddKeepsAnswers ==
    [][(ret'.op = "Add" /\ Len(router.Routes) >= 1) =>
          \A conditions \in Conds, path \in Paths :
              SameAnswer(Match(router, conditions, path),
                         Match(router', conditions, path))
      ]_vars

\* AddKeepsAnswers for the tables whose base path an Add has nothing to
\* change in.
AddKeepsAnswersNormalized ==
    [][(/\ ret'.op = "Add" /\ Len(router.Routes) >= 1
        /\ router.BasePath \in {"", "/foo"}) =>
          \A conditions \in Conds, path \in Paths :
              SameAnswer(Match(router, conditions, path),
                         Match(router', conditions, path))
      ]_vars

-----------------------------------------------------------------------------
(* Transaction and its free pool.  A request is a number; what belongs to   *)
(* a request (its URL, its route match, its session, its query values, the  *)
(* auxiliary data its handlers set) carries that number.  0 is Go's nil     *)
(* for these fields.  The fields of pool:                                   *)
(*   obj      the Transaction objects allocated so far                      *)
(*   free     the objects in httpTransactionFreePool                        *)
(*   live     the objects handed out by NewTransaction, in a handler        *)
(*   served   the requests served so far                                    *)
(*   ret      the call last made: op, and the object it was made on         *)

\* The Transaction objects allocated stop here.
MaxObjects == 2

\* The requests served stop here.
MaxRequests == 3

\* The Status NewTransaction sets.
StatusOK == 200

AuxNames == {"user"}

\* route.Match of request req: nil for req = 0.
RouteMatchOf(req) == [nil |-> req = 0, Path |-> IF req = 0 THEN "" ELSE "/sub", req |-> req]

\* new(Transaction)
ZeroTransaction ==
    [Request |-> 0, URL |-> 0, Status |-> 0, AuxData |-> NilMap,
     headerWritten |-> FALSE, query |-> 0, session |-> 0,
     routeMatch |-> RouteMatchOf(0)]

\* gcTransaction before the Put: the fields it clears.
Cleared(t) ==
    [t EXCEPT !.Request = 0, !.URL = 0, !.headerWritten = FALSE,
              !.query = 0, !.session = 0]

\* NewTransaction after the Get: the fields it sets.
Handed(t, req) ==
    [t EXCEPT !.Request = req, !.URL = req, !.Status = StatusOK]

\* Transaction.RoutePath: the path and the request it is of.
RoutePath(t) ==
    IF ~t.routeMatch.nil
    THEN [Path |-> t.routeMatch.Path, req |-> t.routeMatch.req]
    ELSE [Path |-> "/", req |-> t.URL]

\* Transaction.RouteVar: the request whose route variable is returned, 0
\* for the "" of a transaction without routeMatch.
RouteVar(t) == IF t.routeMatch.nil THEN 0 ELSE t.routeMatch.req

\* Transaction.AuxVar: the request whose value is returned, 0 for nil.
AuxVar(t, name) ==
    IF name \in DOMAIN t.AuxData.map THEN t.AuxData.map[name] ELSE 0

NoTCall == [op |-> "none", id |-> 0]

InitPool ==
    /\ pool = [obj |-> <<>>, free |-> {}, live |-> {}, served |-> 0,
               ret |-> NoTCall]
    /\ NoRouter /\ NoCalls /\ NoStorage /\ NoCond
    /\ NoRefresh /\ NoSession /\ NoHeader /\ NoShutdown /\ NoGotalk

\* The other variables stay as they are.
PoolOnly ==
    /\ UNCHANGED <<routerVars, callVars, storageVars, condVars>>
    /\ UNCHANGED <<refresh, session, header, shutdown, gotalk>>

\* NewTransaction for the next request, Get returning the pooled object id.
NewTransactionPooled ==
    \E id \in pool.free :
        /\ pool.served < MaxRequests
        /\ pool' = [pool EXCEPT
                      !.obj[id] = Handed(@, pool.served + 1),
                      !.free = @ \ {id},
                      !.live = @ \cup {id},
                      !.served = @ + 1,
                      !.ret = [op |-> "New", id |-> id]]
        /\ PoolOnly

\* NewTransaction for the next request, Get finding nothing in the pool (it
\* may drop what was put there) and calling New.
NewTransactionAllocated ==
    /\ pool.served < MaxRequests
    /\ Len(pool.obj) < MaxObjects
    /\ pool' = [pool EXCEPT
                  !.obj = Append(@, Handed(ZeroTransaction, pool.served + 1)),
                  !.live = @ \cup {Len(pool.obj) + 1},
                  !.served = @ + 1,
                  !.ret = [op |-> "New", id |-> Len(pool.obj) + 1]]
    /\ PoolOnly

\* A step of a handler on the live transaction id that changes it to t.
Handled(id, op, t) ==
    /\ id \in pool.live
    /\ pool' = [pool EXCEPT !.obj[id] = t, !.ret = [op |-> op, id |-> id]]
    /\ PoolOnly

\* Router.Match: t.routeMatch = m
RouterMatch ==
    \E id \in pool.live :
        Handled(id, "Match",
                [pool.obj[id] EXCEPT !.routeMatch = RouteMatchOf(pool.obj[id].Request)])

\* Transaction.SetAuxVar
SetAuxVar ==
    \E id \in pool.live, name \in AuxNames :
        Handled(id, "SetAuxVar",
                [pool.obj[id] EXCEPT !.AuxData =
                    MakeMap(Store(@.map, name, pool.obj[id].Request))])

\* Transaction.Query, Transaction.Session and Transaction.WriteHeader
Respond ==
    \E id \in pool.live :
        Handled(id, "Respond",
                [pool.obj[id] EXCEPT !.query = pool.obj[id].Request,
                                     !.session = pool.obj[id].Request,
                                     !.headerWritten = TRUE])

\* The handler has returned and the garbage collector runs the finalizer:
\* gcTransaction.
GcTransaction ==
    \E id \in pool.live :
        /\ pool' = [pool EXCEPT
                      !.obj[id] = Cleared(@),
                      !.live = @ \ {id},
                      !.free = @ \cup {id},
                      !.ret = [op |-> "gc", id |-> id]]
        /\ PoolOnly

NextPool ==
    \/ NewTransactionPooled
    \/ NewTransactionAllocated
    \/ RouterMatch
    \/ SetAuxVar
    \/ Respond
    \/ GcTransaction

SpecPool == InitPool /\ [][NextPool]_vars

\* C29: a transaction NewTransaction hands out has routeMatch nil, AuxData
\* empty, session nil, query nil and headerWritten false, and so RouteVar,
\* RoutePath and AuxVar return nothing of a request served before.
FreshTransaction ==
    pool.ret.op = "New" =>
        /\ pool.obj[pool.ret.id].routeMatch.nil
        /\ LenValues(pool.obj[pool.ret.id].AuxData) = 0
        /\ pool.obj[pool.ret.id].session = 0
        /\ pool.obj[pool.ret.id].query = 0
        /\ ~pool.obj[pool.ret.id].headerWritten
        /\ RouteVar(pool.obj[pool.ret.id]) = 0
        /\ RoutePath(pool.obj[pool.ret.id]).req = pool.obj[pool.ret.id].Request
        /\ \A name \in AuxNames : AuxVar(pool.obj[pool.ret.id], name) = 0

\* The fields gcTransaction clears are clear in a transaction handed out.
FreshTransactionCleared ==
    pool.ret.op = "New" =>
        /\ pool.obj[pool.ret.id].session = 0
        /\ pool.obj[pool.ret.id].query = 0
        /\ ~pool.obj[pool.ret.id].headerWritten
====
